---- MODULE Spec2Model ----
(***************************************************************************)
(* State-machine model of parts of the office suite core:                  *)
(*   - the bibliography (authority) table updater of sw/source/core/tox,   *)
(*   - sw::DocumentLinksAdministrationManager (DDE/OLE link resolution,    *)
(*     UpdateLinks, EmbedAllLinks),                                        *)
(*   - the export Writer base class (Write, ResetWriter, CopyNextPam),     *)
(*   - the Quartz graphics backend of vcl (font list cache, glyph          *)
(*     fallback, drawTextLayout, GetRawFontData).                          *)
(* Strings are sequences of one-character strings, so that lowercase,      *)
(* indexOf, copy and subView are computed as the code computes them.       *)
(***************************************************************************)
EXTENDS Integers, Sequences, FiniteSets, TLC

VARIABLES
    \* --- document objects the links manager searches (static per run)
    marks,        \* IDocumentMarkAccess::getAllMarks: <<[name, isDde, expanded]>>
    sections,     \* SwDoc::GetSections: <<[name, inNodes]>>
    tables,       \* SwDoc::GetTableFrameFormats: <<[name, inNodes]>>
    flys,         \* fly frame formats: <<[name, hasIdx, noText]>>
    outlines,     \* SwNodes::GetOutLineNds: <<[name, level]>>
    \* --- server objects
    markRef,      \* DdeBookmark::GetRefObject per mark (0 = nullptr)
    sectRef,      \* SwSection::GetObject per section (0 = nullptr)
    tableRef,     \* SwTable::GetObject per table (0 = nullptr)
    servers,      \* LinkManager::InsertServer calls, in order (object ids)
    firstRet,     \* history: item -> object returned by the first CreateLinkSource
    call,         \* the last public call and what it returned
    \* --- UpdateLinks
    shell,        \* the SwDocShell and its settings (has = FALSE: no shell)
    userAllows,   \* EmbeddedObjectContainer user-allows-link-update flag
    updLog,       \* LinkManager::UpdateAllLinks invocations by the last call
    \* --- EmbedAllLinks
    links,        \* LinkManager::GetLinks: <<[id, objType, isSw, fname]>>
    closed,       \* id -> number of Closed() calls
    epc,          \* position inside EmbedAllLinks
    bRet,         \* EmbedAllLinks' bRet
    origLinks,    \* history: the link list when EmbedAllLinks was entered
    \* --- bibliography
    fields,       \* authority fields of the document, in document order
    rows,         \* rows of the bibliography table after the last update
    upToDate,     \* TRUE when rows were produced from the current fields
    \* --- Writer
    ring,         \* the ring of SwPaMs the caller's rPaM is in: <<[point, mark]>>
    writer,       \* the Writer's members (0 = nullptr)
    wpc,          \* position inside Writer::Write
    wlog,         \* history of the running / last Write call
    iter,         \* the caller's SwPaM* given to CopyNextPam, and its history
    \* --- AquaSalGraphics::GetRawFontData
    font,         \* GetFontTable( tag, nullptr ) per table tag
    pJustCFF,     \* "null" or "set": the pJustCFF argument
    raw,          \* what the last GetRawFontData call returned and wrote
    \* --- system font list cache
    salData,      \* SalData::mpFontList, lists created and deleted
    fontLog,      \* history of GetDevFontList / ClearDevFontCache calls
    \* --- FindFontSubstitute
    missing,      \* rMissingChars, a sequence of UTF-16 code units
    fallback,     \* what CTFontCreateForString gives for the string
    pattern,      \* rPattern
    substRes,     \* the last FindFontSubstitute call
    \* --- drawTextLayout
    layout,       \* the glyphs of rLayout: <<IsVertical>>
    style,        \* font height, rotation
    dpc,          \* position inside drawTextLayout
    aIt,          \* the iterator of the run loop (0-based index)
    depth,        \* graphics-state depth of the context holder
    draws         \* CTFontDrawGlyphs calls so far: <<[start, len, upright]>>

linkVars   == <<marks, sections, tables, flys, outlines, markRef, sectRef,
                tableRef, servers, firstRet, call>>
updVars    == <<shell, userAllows, updLog>>
embedVars  == <<links, closed, epc, bRet, origLinks>>
toxVars    == <<fields, rows, upToDate>>
writerVars == <<ring, writer, wpc, wlog, iter>>
rawVars    == <<font, pJustCFF, raw>>
cacheVars  == <<salData, fontLog>>
substVars  == <<missing, fallback, pattern, substRes>>
drawVars   == <<layout, style, dpc, aIt, depth, draws>>
vclVars    == <<rawVars, cacheVars, substVars, drawVars>>
vars       == <<linkVars, updVars, embedVars, toxVars, writerVars, vclVars>>

(***************************************************************************)
(* Strings                                                                 *)
(***************************************************************************)
\* one character lowered, CharClass::lowercase on the letters the model uses
LowerChar(c) ==
    CASE c = "A" -> "a"
      [] c = "B" -> "b"
      [] c = "T" -> "t"
      [] c = "R" -> "r"
      [] OTHER   -> c

\* CharClass::lowercase
lowercase(s) == [i \in DOMAIN s |-> LowerChar(s[i])]

\* cMarkSeparator
cMarkSeparator == "|"

\* OUString::indexOf(ch): 0-based index of the first occurrence, -1 if none
indexOf(s, ch) ==
    IF \E i \in DOMAIN s : s[i] = ch
    THEN (CHOOSE i \in DOMAIN s : s[i] = ch /\ \A j \in 1..(i-1) : s[j] # ch) - 1
    ELSE -1

\* OUString::copy(0, n)
copy(s, n) == SubSeq(s, 1, n)

\* OUString::subView(n)
subView(s, n) == SubSeq(s, n + 1, Len(s))

\* INetURLObject::decode: "%7C" is the escaped separator
decode(s) == [i \in DOMAIN s |-> IF s[i] = "%7C" THEN "|" ELSE s[i]]

SeqsUpTo(S, n) == UNION {[1..k -> S] : k \in 0..n}

DistinctNames(q) == \A i, j \in DOMAIN q : i # j => q[i].name # q[j].name

\* index of the first i in 1..n with P(i), 0 when there is none (a for loop
\* that breaks at the first hit)
FirstIdx(n, P(_)) ==
    IF \E i \in 1..n : P(i)
    THEN CHOOSE i \in 1..n : P(i) /\ \A j \in 1..(i-1) : ~P(j)
    ELSE 0

(***************************************************************************)
(* Bounds and input sets                                                   *)
(***************************************************************************)
MaxLinkObjs == 2      \* marks + sections + tables of a document (link search)
MaxSelObjs  == 1      \* objects of a document (SelectServerObj)

ObjNames == {<<"a">>, <<"A">>}
Marks    == [name : ObjNames, isDde : BOOLEAN, expanded : BOOLEAN]
Sections == [name : ObjNames, inNodes : BOOLEAN]
Tables   == [name : ObjNames, inNodes : BOOLEAN]
Flys     == [name : ObjNames, hasIdx : BOOLEAN, noText : BOOLEAN]
Outlines == [name : ObjNames, level : 1..2]

\* sequences of at most n objects with pairwise different names
NamedSeqs(S, n) == {q \in SeqsUpTo(S, n) : DistinctNames(q)}

\* names asked for by GetData / CreateLinkSource
Items == {<<"a">>, <<"A">>, <<"b">>}

None == <<"none", 0>>
NoRange == <<"none", 0, 0>>
NoCall == [op |-> "none", item |-> <<>>, target |-> None, ret |-> FALSE,
           obj |-> 0, pam |-> 0, range |-> NoRange, kind |-> <<>>,
           inPam |-> 0, inRange |-> NoRange]

(***************************************************************************)
(* Helper functions of DocumentLinksAdministrationManager                  *)
(***************************************************************************)
\* lcl_FindDdeBookmark: the first DdeBookmark whose name matches (0 = nullptr)
lcl_FindDdeBookmark(rName, bCaseSensitive) ==
    LET sNameLc == IF bCaseSensitive THEN rName ELSE lowercase(rName)
        hit(i)  == /\ marks[i].isDde
                   /\ \/ (bCaseSensitive /\ marks[i].name = sNameLc)
                      \/ (~bCaseSensitive /\ lowercase(marks[i].name) = sNameLc)
    IN FirstIdx(Len(marks), hit)

\* lcl_FindSection: FALSE when pSectFormat is the section looked for (the
\* caller's loop stops), TRUE to go on
lcl_FindSection(pSectFormat, m_Item, bCaseSensitive) ==
    LET sNm      == IF bCaseSensitive THEN pSectFormat.name
                                      ELSE lowercase(pSectFormat.name)
        sCompare == IF bCaseSensitive THEN m_Item ELSE lowercase(m_Item)
    IN ~(sNm = sCompare /\ pSectFormat.inNodes)

\* the loop over GetSections(): aPara.pSectNd as a section index (0 = nullptr)
FindSectNd(m_Item, bCaseSensitive) ==
    FirstIdx(Len(sections),
             LAMBDA i : ~lcl_FindSection(sections[i], m_Item, bCaseSensitive))

\* lcl_FindTable: FALSE when pTableFormat is the table looked for
lcl_FindTable(pTableFormat, m_Item) ==
    ~(lowercase(pTableFormat.name) = m_Item /\ pTableFormat.inNodes)

\* the loop over GetTableFrameFormats(): aPara.pTableNd (0 = nullptr)
FindTableNd(m_Item) ==
    FirstIdx(Len(tables), LAMBDA i : ~lcl_FindTable(tables[i], m_Item))

\* the server object a target has (0 = nullptr)
RefOf(t) ==
    CASE t[1] = "mark"    -> markRef[t[2]]
      [] t[1] = "section" -> sectRef[t[2]]
      [] t[1] = "table"   -> tableRef[t[2]]
      [] OTHER            -> 0

(***************************************************************************)
(* GetData                                                                 *)
(***************************************************************************)
\* one round of the while loop of GetData: DDE bookmark, then section
GetData_pass(rItem, bCaseSensitive) ==
    LET pBkmk   == lcl_FindDdeBookmark(rItem, bCaseSensitive)
        sItem   == IF bCaseSensitive THEN rItem ELSE lowercase(rItem)
        pSectNd == FindSectNd(sItem, bCaseSensitive)
    IN IF pBkmk # 0 THEN <<"mark", pBkmk>>
       ELSE IF pSectNd # 0 THEN <<"section", pSectNd>>
       ELSE None

\* a variant that runs the case-insensitive round first
GetData_target_ciFirst(rItem) ==
    LET p1       == GetData_pass(rItem, TRUE)
        p2       == GetData_pass(rItem, FALSE)
        pTableNd == FindTableNd(lowercase(rItem))
    IN IF p2 # None THEN p2
       ELSE IF p1 # None THEN p1
       ELSE IF pTableNd # 0 THEN <<"table", pTableNd>>
       ELSE None

\* the object whose SwServerObject::GetData is returned (None: return false)
GetData_target(rItem) ==
    LET p1       == GetData_pass(rItem, TRUE)
        p2       == GetData_pass(rItem, FALSE)
        pTableNd == FindTableNd(lowercase(rItem))
    IN IF p1 # None THEN p1
       ELSE IF p2 # None THEN p2
       ELSE IF pTableNd # 0 THEN <<"table", pTableNd>>
       ELSE None

\* GetData(rItem, rMimeType, rValue); SwServerObject::GetData may fail or not
GetData(rItem) ==
    LET t == GetData_target(rItem) IN
    /\ \E r \in (IF t = None THEN {FALSE} ELSE BOOLEAN) :
          call' = [NoCall EXCEPT !.op = "GetData", !.item = rItem,
                                 !.target = t, !.ret = r]
    /\ UNCHANGED <<marks, sections, tables, flys, outlines, markRef, sectRef,
                   tableRef, servers, firstRet>>
    /\ UNCHANGED <<updVars, embedVars, toxVars>>
    /\ UNCHANGED <<writerVars, vclVars>>

(***************************************************************************)
(* CreateLinkSource                                                        *)
(***************************************************************************)
\* one round of the while loop of CreateLinkSource: a DDE bookmark is used
\* only when it is expanded, otherwise the sections are searched
CreateLinkSource_pass(rItem, bCaseSensitive) ==
    LET pBkmk   == lcl_FindDdeBookmark(rItem, bCaseSensitive)
        sItem   == IF bCaseSensitive THEN rItem ELSE lowercase(rItem)
        pSectNd == FindSectNd(sItem, bCaseSensitive)
    IN IF pBkmk # 0 /\ marks[pBkmk].expanded THEN <<"mark", pBkmk>>
       ELSE IF pSectNd # 0 THEN <<"section", pSectNd>>
       ELSE None

\* the object CreateLinkSource links to (None: it returns nullptr)
CreateLinkSource_target(rItem) ==
    LET p1       == CreateLinkSource_pass(rItem, TRUE)
        p2       == CreateLinkSource_pass(rItem, FALSE)
        pTableNd == FindTableNd(lowercase(rItem))
    IN IF p1 # None THEN p1
       ELSE IF p2 # None THEN p2
       ELSE IF pTableNd # 0 THEN <<"table", pTableNd>>
       ELSE None

\* a variant that creates a server object on every call
NeedsNewServer_always(pObj) == TRUE

\* "if( !pObj )": a server object is created when the target has none
NeedsNewServer(pObj) == pObj = 0

CreateLinkSource(rItem) ==
    LET t      == CreateLinkSource_target(rItem)
        pOld   == RefOf(t)
        create == t # None /\ NeedsNewServer(pOld)
        pObj   == IF create THEN Len(servers) + 1 ELSE pOld
    IN
    /\ markRef'  = IF create /\ t[1] = "mark"
                   THEN [markRef EXCEPT ![t[2]] = pObj] ELSE markRef
    /\ sectRef'  = IF create /\ t[1] = "section"
                   THEN [sectRef EXCEPT ![t[2]] = pObj] ELSE sectRef
    /\ tableRef' = IF create /\ t[1] = "table"
                   THEN [tableRef EXCEPT ![t[2]] = pObj] ELSE tableRef
    /\ servers'  = IF create THEN Append(servers, pObj) ELSE servers
    /\ firstRet' = IF firstRet[rItem] = -1
                   THEN [firstRet EXCEPT ![rItem] = pObj] ELSE firstRet
    /\ call' = [NoCall EXCEPT !.op = "CreateLinkSource", !.item = rItem,
                              !.target = t, !.obj = pObj, !.ret = (pObj # 0)]
    /\ UNCHANGED <<marks, sections, tables, flys, outlines>>
    /\ UNCHANGED <<updVars, embedVars, toxVars>>
    /\ UNCHANGED <<writerVars, vclVars>>

(***************************************************************************)
(* SelectServerObj                                                         *)
(***************************************************************************)
kwTable   == <<"t", "a", "b", "l", "e">>
kwFrame   == <<"f", "r", "a", "m", "e">>
kwRegion  == <<"r", "e", "g", "i", "o", "n">>
kwOutline == <<"o", "u", "t", "l", "i", "n", "e">>

\* what a read of freed string memory can give that is no keyword
Garbage == <<"?">>

\* sCmp is a view into the buffer of sItem, taken before
\* "sItem = rCC.lowercase( sItem )" releases that buffer: the comparisons
\* that follow read freed memory, which still holds the old characters or
\* has been overwritten by the allocator.
sCmpRead(view) == {view, Garbage}

\* a variant that keeps the caller's pointer
ResetPam_keep(rpPam) == rpPam

\* "rpPam = nullptr;"
ResetPam(rpPam) == 0

\* "roRange.reset();"
ResetRange(roRange) == NoRange

\* SwDoc::FindFlyByName (0 = nullptr)
FindFlyByName(sName) ==
    FirstIdx(Len(flys), LAMBDA i : flys[i].name = sName)

\* SwDoc::GotoOutline: the outline node of that name (0 = not found)
GotoOutline(sName) ==
    FirstIdx(Len(outlines), LAMBDA i : outlines[i].name = sName)

\* "look for the section's end": the first following outline node that is
\* not deeper than nLvl; Len(outlines) + 1 stands for GetEndOfContent()
OutlineEnd(nTmpPos, nLvl) ==
    LET stop(j) == j > nTmpPos /\ ~(nLvl < outlines[j].level - 1)
        j0      == FirstIdx(Len(outlines), stop)
    IN IF j0 # 0 THEN j0 ELSE Len(outlines) + 1

Result(ret, pam, range) == [ret |-> ret, pam |-> pam, range |-> range]

\* one round of the while loop at the end of SelectServerObj; done = FALSE
\* when the round found neither a DDE bookmark nor a section
SelectServerObj_pass(sItem, bCaseSensitive, pam0, range0) ==
    LET pBkmk   == lcl_FindDdeBookmark(sItem, bCaseSensitive)
        m_Item  == IF bCaseSensitive THEN sItem ELSE lowercase(sItem)
        pSectNd == IF sections # <<>> THEN FindSectNd(m_Item, bCaseSensitive)
                   ELSE 0
    IN IF pBkmk # 0
       THEN [done |-> TRUE,
             res |-> IF marks[pBkmk].expanded
                     THEN Result(TRUE, pBkmk, range0)
                     ELSE Result(pam0 # 0, pam0, range0)]
       ELSE IF pSectNd # 0
       THEN [done |-> TRUE,
             res |-> Result(TRUE, pam0, <<"section", pSectNd, pSectNd>>)]
       ELSE [done |-> FALSE, res |-> Result(FALSE, pam0, range0)]

\* the bookmark/section search: case sensitive first, then case insensitive
SelectServerObj_search(sItem, pam0, range0) ==
    LET p1 == SelectServerObj_pass(sItem, TRUE, pam0, range0)
        p2 == SelectServerObj_pass(sItem, FALSE, pam0, range0)
    IN IF p1.done THEN p1.res ELSE p2.res

\* SelectServerObj after the outputs were cleared and the item decoded;
\* sCmp is what the comparisons read as the part after the separator
SelectServerObj_body(sItem0, sCmp, pam0, range0) ==
    LET nPos  == indexOf(sItem0, cMarkSeparator)
        sName == copy(sItem0, nPos)
        \* aPara is built from sName before "sName = rCC.lowercase( sName )"
        pTableNd   == FindTableNd(sName)
        pFlyFormat == FindFlyByName(sName)
        pOutl      == GotoOutline(sName)
        Miss       == Result(FALSE, pam0, range0)
    IN IF nPos = -1 THEN SelectServerObj_search(sItem0, pam0, range0)
       ELSE IF sCmp = kwTable
       THEN IF pTableNd # 0
            THEN Result(TRUE, pam0, <<"table", pTableNd, pTableNd>>)
            ELSE Miss
       ELSE IF sCmp = kwFrame
       THEN IF /\ pFlyFormat # 0
               /\ flys[pFlyFormat].hasIdx
               /\ ~flys[pFlyFormat].noText
            THEN Result(TRUE, pam0, <<"frame", pFlyFormat, pFlyFormat>>)
            ELSE Miss
       ELSE IF sCmp = kwRegion
       THEN SelectServerObj_search(sName, pam0, range0)
       ELSE IF sCmp = kwOutline
       THEN IF pOutl # 0
            THEN Result(TRUE, pam0,
                        <<"outline", pOutl,
                          OutlineEnd(pOutl, outlines[pOutl].level - 1)>>)
            ELSE Miss
       ELSE Miss

\* SelectServerObj(rStr, rpPam, roRange); call.pam and call.range are the
\* caller's rpPam and roRange, which keep their values between calls
SelectServerObj(rStr) ==
    LET sItem0 == decode(rStr)
        nPos   == indexOf(sItem0, cMarkSeparator)
        reads  == IF nPos # -1 THEN sCmpRead(subView(sItem0, nPos + 1))
                  ELSE {<<>>}
    IN
    /\ \E sCmp \in reads :
          LET r == SelectServerObj_body(sItem0, sCmp, ResetPam(call.pam),
                                        ResetRange(call.range))
          IN call' = [NoCall EXCEPT !.op = "SelectServerObj", !.item = rStr,
                                    !.ret = r.ret, !.pam = r.pam,
                                    !.range = r.range, !.kind = sCmp,
                                    !.inPam = call.pam,
                                    !.inRange = call.range]
    /\ UNCHANGED <<marks, sections, tables, flys, outlines, markRef, sectRef,
                   tableRef, servers, firstRet>>
    /\ UNCHANGED <<updVars, embedVars, toxVars>>
    /\ UNCHANGED <<writerVars, vclVars>>

(***************************************************************************)
(* UpdateLinks                                                             *)
(***************************************************************************)
CreateModes    == {"STANDARD", "EMBEDDED", "INTERNAL", "ORGANIZER"}
LinkModes      == {"NEVER", "MANUAL", "AUTOMATIC"}
UpdateDocModes == {"NO_UPDATE", "QUIET_UPDATE", "ACCORDING_TO_CONFIG",
                   "FULL_UPDATE"}
Locations      == {"", "loc"}

\* the document shell: has = FALSE stands for GetDocShell() == nullptr
Shells ==
    [has : BOOLEAN, createMode : CreateModes, preview : BOOLEAN,
     linkMode : LinkModes, updateDocMode : UpdateDocModes,
     hasMedium : BOOLEAN, mediumName : Locations, trusted : SUBSET Locations]

NoShell ==
    [has |-> FALSE, createMode |-> "STANDARD", preview |-> FALSE,
     linkMode |-> "NEVER", updateDocMode |-> "NO_UPDATE",
     hasMedium |-> FALSE, mediumName |-> "", trusted |-> {}]

NoUpdLog == [done |-> FALSE, asked |-> <<>>, set |-> "none", was |-> FALSE]

\* SvtSecurityOptions::isTrustedLocationUriForUpdatingLinks
isTrustedLocationUriForUpdatingLinks(uri) == uri \in shell.trusted

\* a variant that does not look at IsPreview()
UpdateLinks_returnsEarly_noPreview ==
    \/ ~shell.has
    \/ shell.createMode = "INTERNAL"
    \/ shell.createMode = "ORGANIZER"
    \/ links = <<>>
    \/ (shell.linkMode = "NEVER" /\ shell.updateDocMode # "FULL_UPDATE")

\* the returns of UpdateLinks before bAskUpdate is computed
UpdateLinks_returnsEarly ==
    \/ ~shell.has
    \/ shell.createMode = "INTERNAL"
    \/ shell.createMode = "ORGANIZER"
    \/ shell.preview
    \/ links = <<>>
    \/ (shell.linkMode = "NEVER" /\ shell.updateDocMode # "FULL_UPDATE")

\* bUpdate after the switch
UpdateLinks_bUpdate == shell.updateDocMode # "NO_UPDATE"

\* a variant without the trusted-location check
UpdateLinks_bAskUpdate_noTrustCheck ==
    CASE shell.updateDocMode = "QUIET_UPDATE" -> FALSE
      [] shell.updateDocMode = "FULL_UPDATE"  -> TRUE
      [] OTHER                                -> shell.linkMode = "MANUAL"

\* bAskUpdate as passed to UpdateAllLinks
UpdateLinks_bAskUpdate ==
    LET bAskUpdate ==
            CASE shell.updateDocMode = "QUIET_UPDATE" -> FALSE
              [] shell.updateDocMode = "FULL_UPDATE"  -> TRUE
              [] OTHER                                -> shell.linkMode = "MANUAL"
        uri == IF ~shell.hasMedium THEN "" ELSE shell.mediumName
    IN IF /\ shell.linkMode = "AUTOMATIC"
          /\ ~bAskUpdate
          /\ ~isTrustedLocationUriForUpdatingLinks(uri)
       THEN TRUE
       ELSE bAskUpdate

\* UpdateLinks(): updLog.asked collects the bAskUpdate of every
\* UpdateAllLinks call, updLog.set the setUserAllowsLinkUpdate call
UpdateLinks ==
    /\ IF UpdateLinks_returnsEarly
       THEN /\ userAllows' = userAllows
            /\ updLog' = [done |-> TRUE, asked |-> <<>>, set |-> "none",
                          was |-> userAllows]
       ELSE IF UpdateLinks_bUpdate
       THEN /\ userAllows' = TRUE
            /\ updLog' = [done |-> TRUE, asked |-> <<UpdateLinks_bAskUpdate>>,
                          set |-> "true", was |-> userAllows]
       ELSE /\ userAllows' = FALSE
            /\ updLog' = [done |-> TRUE, asked |-> <<>>, set |-> "false",
                          was |-> userAllows]
    /\ UNCHANGED <<shell, linkVars, embedVars, toxVars>>
    /\ UNCHANGED <<writerVars, vclVars>>

(***************************************************************************)
(* EmbedAllLinks                                                           *)
(***************************************************************************)
MaxLinks == 2        \* links in the link manager

schemeFile == <<"f", "i", "l", "e", ":">>
schemeCid  == <<"c", "i", "d", ":">>
schemeHttp == <<"h", "t", "t", "p", ":">>

HasPrefix(str, pre) ==
    Len(str) >= Len(pre) /\ SubSeq(str, 1, Len(pre)) = pre

\* INetURLObject::GetProtocol of the parsed file name
GetProtocol(sFName) ==
    IF HasPrefix(sFName, schemeFile) THEN "File"
    ELSE IF HasPrefix(sFName, schemeCid) THEN "Cid"
    ELSE IF HasPrefix(sFName, schemeHttp) THEN "Http"
    ELSE "NotValid"

ObjTypes   == {"ClientGraphic", "ClientFile", "ClientDde"}
FileNames  == {schemeFile \o <<"x">>, schemeCid \o <<"x">>,
               schemeHttp \o <<"x">>, <<"x">>}
LinkShapes == [objType : ObjTypes, isSw : BOOLEAN, fname : FileNames]

\* a variant that takes graphic links only
IsRemovableLink_graphicOnly(rLnk) ==
    /\ rLnk.objType = "ClientGraphic"
    /\ rLnk.isSw
    /\ GetProtocol(rLnk.fname) \in {"File", "Cid"}

\* the test of lcl_FindNextRemovableLink on one link
IsRemovableLink(rLnk) ==
    /\ rLnk.objType \in {"ClientGraphic", "ClientFile"}
    /\ rLnk.isSw
    /\ GetProtocol(rLnk.fname) \in {"File", "Cid"}

\* lcl_FindNextRemovableLink: the first removable link (0 = nullptr)
lcl_FindNextRemovableLink(rLinks) ==
    FirstIdx(Len(rLinks), LAMBDA i : IsRemovableLink(rLinks[i]))

\* LinkManager::Remove: the list without the link, if it is in the list
LinkManager_Remove(rLinks, id) ==
    SelectSeq(rLinks, LAMBDA l : l.id # id)

\* entry of EmbedAllLinks up to the test of rLinks.empty()
EmbedAllLinks_enter ==
    /\ epc = "idle"
    /\ bRet' = FALSE
    /\ origLinks' = links
    /\ epc' = IF links # <<>> THEN "loop" ELSE "done"
    /\ UNCHANGED <<links, closed>>
    /\ UNCHANGED <<linkVars, updVars, toxVars>>
    /\ UNCHANGED <<writerVars, vclVars>>

\* one evaluation of the while condition and, when a link was found, of the
\* loop body; Closed() may have taken the link out of the manager already
EmbedAllLinks_step ==
    /\ epc = "loop"
    /\ LET pLnk == lcl_FindNextRemovableLink(links) IN
       IF pLnk = 0
       THEN /\ epc' = "done"
            /\ UNCHANGED <<links, closed, bRet>>
       ELSE /\ closed' = [closed EXCEPT ![links[pLnk].id] = @ + 1]
            /\ \E removedItself \in BOOLEAN :
                  links' = LinkManager_Remove(
                              IF removedItself
                              THEN SelectSeq(links,
                                             LAMBDA l : l.id # links[pLnk].id)
                              ELSE links,
                              links[pLnk].id)
            /\ bRet' = TRUE
            /\ epc' = "loop"
    /\ UNCHANGED origLinks
    /\ UNCHANGED <<linkVars, updVars, toxVars>>
    /\ UNCHANGED <<writerVars, vclVars>>

\* the caller has the result; the next call may start
EmbedAllLinks_return ==
    /\ epc = "done"
    /\ epc' = "idle"
    /\ UNCHANGED <<links, closed, bRet, origLinks>>
    /\ UNCHANGED <<linkVars, updVars, toxVars>>
    /\ UNCHANGED <<writerVars, vclVars>>

(***************************************************************************)
(* Bibliography table                                                      *)
(***************************************************************************)
MaxFields == 3       \* authority fields in the document

\* URLs: a base, then possibly "#", "page=" and a page number
Urls ==
    {<<>>} \cup
    {b \o f : b \in {<<"u">>, <<"v">>},
              f \in {<<>>, <<"#", "page=", "1">>, <<"#", "page=", "2">>}}
AuthFields == [which : {"TableOfAuthorities"}, id : {"AT"},
               author : {"Author", "Other"}, url : Urls]

\* a variant that keeps the fragment
StripFragment_keep(url) == url

\* the URL of a source without its fragment identifier
StripFragment(url) ==
    LET n == indexOf(url, "#") IN IF n = -1 THEN url ELSE copy(url, n)

\* the source an authority field refers to
SourceOf(f) == [id |-> f.id, author |-> f.author, url |-> StripFragment(f.url)]

\* the row of a source: its text portions and the hyperlink target of the
\* URL portion
RowOf(src) == [id |-> src.id, author |-> src.author, url |-> src.url,
               link |-> src.url]

\* a variant that keeps every field's row
Dedup_none(q) == q

\* the sources of the fields in document order, each once
RECURSIVE Dedup(_)
Dedup(q) ==
    IF q = <<>> THEN <<>>
    ELSE LET front == Dedup(SubSeq(q, 1, Len(q) - 1))
             last  == q[Len(q)]
         IN IF \E i \in DOMAIN front : front[i] = last
            THEN front ELSE Append(front, last)

\* XText::insertTextContent of a bibliography entry field
InsertField(f) ==
    /\ Len(fields) < MaxFields
    /\ fields' = Append(fields, f)
    /\ upToDate' = FALSE
    /\ UNCHANGED rows
    /\ UNCHANGED <<linkVars, updVars, embedVars>>
    /\ UNCHANGED <<writerVars, vclVars>>

\* XDocumentIndex::update of the bibliography table
UpdateTable ==
    /\ rows' = [i \in DOMAIN Dedup([j \in DOMAIN fields |-> SourceOf(fields[j])])
                  |-> RowOf(Dedup([j \in DOMAIN fields |-> SourceOf(fields[j])])[i])]
    /\ upToDate' = TRUE
    /\ UNCHANGED fields
    /\ UNCHANGED <<linkVars, updVars, embedVars>>
    /\ UNCHANGED <<writerVars, vclVars>>

(***************************************************************************)
(* Writer: Write, ResetWriter, CopyNextPam                                 *)
(***************************************************************************)
MaxRing == 3          \* SwPaMs in the ring of the PaM given to Write

\* node positions a PaM's point and mark can have
Positions == {0, 1}
\* point before, behind or at the mark; a PaM without selection is taken at
\* the first position only
PaMs ==
    {p \in [point : Positions, mark : Positions] :
        p.point = p.mark => p.point = 0}

\* SwPaM::Start / SwPaM::End: the smaller / larger of point and mark
Start(p) == IF p.point <= p.mark THEN p.point ELSE p.mark
End(p)   == IF p.point <= p.mark THEN p.mark ELSE p.point

\* Ring::GetNext on the ring of the original PaM (indices into ring)
GetNext(i) == (i % Len(ring)) + 1

\* m_pCurrentPam == nullptr
NoCurrentPam == [has |-> FALSE, point |-> 0, mark |-> 0]

\* ERRCODE_NONE and an error that WriteStream can return
ErrCodes == {"ERRCODE_NONE", "ERR_SWG_WRITE_ERROR"}

\* pFName: nullptr or the address of a file name
FileNamePtrs == {0, 1}

\* Writer::Writer, StgWriter for isStg; pStg is StgWriter::m_pStg
NewWriter(isStg) ==
    [isStg |-> isStg, pDoc |-> 0, pOrigFileName |-> 0, pStream |-> 0,
     pStg |-> 0, pCurrentPam |-> NoCurrentPam, pOrigPam |-> 0]

NoWriteLog ==
    [op |-> "none", via |-> "none", rPaM |-> 0, pFName |-> 0, wsCalls |-> 0,
     atCall |-> NewWriter(FALSE), wsRet |-> "", ret |-> "",
     returned |-> FALSE, committed |-> FALSE]

NoIter ==
    [pp |-> 0, trues |-> 0, last |-> "none", prevPp |-> 0,
     prevCur |-> NoCurrentPam]

\* mutation of ResetWriter: the stream pointer of the old Writer_Impl is kept
ResetWriter_keepStream(w) ==
    [w EXCEPT !.pCurrentPam = NoCurrentPam, !.pOrigFileName = 0, !.pDoc = 0]

\* Writer::ResetWriter: a new Writer_Impl (m_pStream == nullptr), no current
\* PaM, no file name, no document; m_pOrigPam is left as it is
ResetWriter(w) ==
    [w EXCEPT !.pStream = 0, !.pCurrentPam = NoCurrentPam,
              !.pOrigFileName = 0, !.pDoc = 0]

\* the members Write sets before it calls the virtual writing function: the
\* current PaM is created at rPaM.End(), its mark set, its point moved to
\* rPaM.Start()
WriteSetup(w, rPaM, pFName) ==
    [w EXCEPT !.pDoc = 1,
              !.pOrigFileName = pFName,
              !.pCurrentPam = [has |-> TRUE,
                               point |-> Start(ring[rPaM]),
                               mark |-> End(ring[rPaM])],
              !.pOrigPam = rPaM]

\* the ways into StgWriter::Write: Writer::Write( SwPaM&, SvStream&, .. ) of a
\* storage writer, which wraps the stream into a SotStorage, and the two
\* public overloads for a SotStorage and for an embed::XStorage
StgEntries == {"SvStream", "SotStorage", "XStorage"}

\* Writer::SetStream: no precondition; it is public and is also called while
\* WriteStream or WriteStorage runs, where the log of the running Write is
\* kept
SetStream(pStream) ==
    /\ writer' = [writer EXCEPT !.pStream = pStream]
    /\ wlog' = IF wpc \in {"stream", "storage"}
               THEN wlog
               ELSE [NoWriteLog EXCEPT !.op = "SetStream"]
    /\ UNCHANGED <<ring, wpc, iter>>
    /\ UNCHANGED <<linkVars, updVars, embedVars, toxVars, vclVars>>

\* Writer::Write( SwPaM&, SotStorage&, .. ) and
\* Writer::Write( SwPaM&, XStorage, .. ) of a writer that is no StgWriter,
\* called when no Write runs, also after a Write that was left by an
\* exception
Write_noStorage(rPaM, pFName) ==
    /\ wpc \in {"idle", "thrown"}
    /\ ~writer.isStg
    /\ wlog' = [NoWriteLog EXCEPT !.op = "WriteStorage", !.via = "SotStorage",
                                  !.rPaM = rPaM, !.pFName = pFName,
                                  !.atCall = writer,
                                  !.ret = "ERR_SWG_WRITE_ERROR",
                                  !.returned = TRUE]
    /\ UNCHANGED <<ring, writer, wpc, iter>>
    /\ UNCHANGED <<linkVars, updVars, embedVars, toxVars, vclVars>>

\* StgWriter::Write up to the call of WriteStorage (or WriteMedium), entered
\* directly or through Writer::Write( SwPaM&, SvStream&, .. )
Write_stg_call(via, rPaM, pFName) ==
    /\ wpc \in {"idle", "thrown"}
    /\ writer.isStg
    /\ writer' = [WriteSetup(writer, rPaM, pFName) EXCEPT
                     !.pStream = 0,
                     !.pStg = IF via = "XStorage" THEN 0 ELSE 1]
    /\ wpc' = "storage"
    /\ wlog' = [NoWriteLog EXCEPT
                    !.op = IF via = "SvStream" THEN "Write" ELSE "WriteStorage",
                    !.via = via, !.rPaM = rPaM, !.pFName = pFName,
                    !.wsCalls = 1, !.atCall = writer']
    /\ iter' = [NoIter EXCEPT !.pp = rPaM]
    /\ UNCHANGED ring
    /\ UNCHANGED <<linkVars, updVars, embedVars, toxVars, vclVars>>

\* WriteStorage returns nRet; m_pStg = nullptr; ResetWriter(); return nRet;
\* Writer::Write commits the SotStorage it made when the result is
\* ERRCODE_NONE
Write_stg_return ==
    /\ wpc = "storage"
    /\ \E nRet \in ErrCodes :
          wlog' = [wlog EXCEPT !.wsRet = nRet, !.ret = nRet,
                               !.returned = TRUE,
                               !.committed = (wlog.via = "SvStream"
                                              /\ nRet = "ERRCODE_NONE")]
    /\ writer' = ResetWriter([writer EXCEPT !.pStg = 0])
    /\ wpc' = "idle"
    /\ UNCHANGED <<ring, iter>>
    /\ UNCHANGED <<linkVars, updVars, embedVars, toxVars, vclVars>>

\* WriteStorage throws a ContentCreationException, which Writer::Write
\* catches: nResult is still ERRCODE_ABORT and StgWriter::Write was left
\* before ResetWriter
Write_stg_abort ==
    /\ wpc = "storage"
    /\ wlog.via = "SvStream"
    /\ wlog' = [wlog EXCEPT !.ret = "ERRCODE_ABORT", !.returned = TRUE]
    /\ wpc' = "idle"
    /\ UNCHANGED <<ring, writer, iter>>
    /\ UNCHANGED <<linkVars, updVars, embedVars, toxVars, vclVars>>

\* Writer::Write up to the call of WriteStream
Write_call(rPaM, pFName) ==
    /\ wpc \in {"idle", "thrown"}
    /\ ~writer.isStg
    /\ writer' = [WriteSetup(writer, rPaM, pFName) EXCEPT !.pStream = 1]
    /\ wpc' = "stream"
    /\ wlog' = [NoWriteLog EXCEPT !.op = "Write", !.via = "SvStream",
                                  !.rPaM = rPaM,
                                  !.pFName = pFName, !.wsCalls = 1,
                                  !.atCall = writer']
    /\ iter' = [NoIter EXCEPT !.pp = rPaM]
    /\ UNCHANGED ring
    /\ UNCHANGED <<linkVars, updVars, embedVars, toxVars, vclVars>>

\* mutation of the end-of-ring test: one member too early
CopyNextPam_atEnd_early(pp) == GetNext(GetNext(pp)) = writer.pOrigPam

\* (*ppPam)->GetNext() == m_pOrigPam
CopyNextPam_atEnd(pp) == GetNext(pp) = writer.pOrigPam

\* Writer::CopyNextPam( &pPam ), called by a WriteStream or WriteStorage
\* implementation; iter.trues counts the calls that returned true since pPam
\* was m_pOrigPam
CopyNextPam ==
    /\ wpc \in {"stream", "storage"}
    /\ LET cnt == IF iter.last = "false" THEN 0 ELSE iter.trues
       IN IF CopyNextPam_atEnd(iter.pp)
          THEN /\ iter' = [pp |-> writer.pOrigPam, trues |-> cnt,
                           last |-> "false", prevPp |-> iter.pp,
                           prevCur |-> writer.pCurrentPam]
               /\ UNCHANGED writer
          ELSE /\ iter' = [pp |-> GetNext(iter.pp), trues |-> cnt + 1,
                           last |-> "true", prevPp |-> iter.pp,
                           prevCur |-> writer.pCurrentPam]
               /\ writer' = [writer EXCEPT
                                !.pCurrentPam =
                                    [has |-> TRUE,
                                     point |-> Start(ring[GetNext(iter.pp)]),
                                     mark |-> End(ring[GetNext(iter.pp)])]]
    /\ UNCHANGED <<ring, wpc, wlog>>
    /\ UNCHANGED <<linkVars, updVars, embedVars, toxVars, vclVars>>

\* WriteStream returns nRet; ResetWriter(); return nRet
Write_return ==
    /\ wpc = "stream"
    /\ \E nRet \in ErrCodes :
          wlog' = [wlog EXCEPT !.wsRet = nRet, !.ret = nRet,
                               !.returned = TRUE]
    /\ writer' = ResetWriter(writer)
    /\ wpc' = "idle"
    /\ UNCHANGED <<ring, iter>>
    /\ UNCHANGED <<linkVars, updVars, embedVars, toxVars, vclVars>>

\* WriteStream or WriteStorage throws an exception nobody in Write catches:
\* Write is left without ResetWriter
Write_throw ==
    /\ wpc \in {"stream", "storage"}
    /\ wpc' = "thrown"
    /\ UNCHANGED <<ring, writer, wlog, iter>>
    /\ UNCHANGED <<linkVars, updVars, embedVars, toxVars, vclVars>>

(***************************************************************************)
(* AquaSalGraphics::GetRawFontData                                         *)
(***************************************************************************)
MaxTableSize == 1     \* largest size GetFontTable reports for a table

Tags == {"CFF ", "head", "maxp", "cmap", "name", "hhea", "hmtx",
         "loca", "glyf", "prep", "cvt ", "fpgm"}

\* the tables GetRawFontData asks for first, in the order it asks
Mandatory == <<"head", "maxp", "cmap", "name", "hhea", "hmtx">>

HintTags == {"prep", "cvt ", "fpgm"}

\* a font whose tables have the given sizes; the tables of q are the first
\* Len(q) of Mandatory
FontOf(cff, q, loca, glyf, hints) ==
    [t \in Tags |->
        IF t = "CFF " THEN cff
        ELSE IF t = "loca" THEN loca
        ELSE IF t = "glyf" THEN glyf
        ELSE IF t \in HintTags THEN hints[t]
        ELSE LET k == CHOOSE j \in 1..6 : Mandatory[j] = t
             IN IF k <= Len(q) THEN q[k] ELSE 0]

NoHints == [t \in HintTags |-> 0]

\* The fonts GetRawFontData is called on: GetFontTable( tag, nullptr ) per
\* tag, 0 for a table the font does not have.  A table the function never
\* asks for, because an earlier one is missing, is left at 0.
Fonts ==
    {FontOf(cff, q, 0, 0, NoHints) :
        cff \in 0..MaxTableSize,
        q \in UNION {[1..k -> 1..MaxTableSize] : k \in 0..6}}
    \cup
    {FontOf(0, q, loca, 0, NoHints) :
        q \in [1..6 -> 1..MaxTableSize], loca \in 0..MaxTableSize}
    \cup
    {FontOf(0, q, loca, glyf, hints) :
        q \in [1..6 -> 1..MaxTableSize],
        loca \in 1..MaxTableSize, glyf \in 1..MaxTableSize,
        hints \in [HintTags -> 0..MaxTableSize]}

\* what a directory header byte holds before it is written
NoHeader ==
    [scaler |-> 0, numTables |-> 0, searchRange |-> 0, entrySelector |-> 0,
     rangeShift |-> 0]

\* no call yet; also the shape of every result
NoRaw ==
    [done |-> FALSE, ret |-> FALSE, justCFF |-> "unset", sfnt |-> FALSE,
     size |-> 0, nFdirSize |-> 0, nTotalSize |-> 0, nOfs |-> 0,
     hdr |-> NoHeader, dir |-> <<>>, data |-> <<>>, complete |-> {},
     shortRead |-> {}]

\* pMacFont->GetFontTable( tag, pBuf ): the number of bytes written to pBuf;
\* the table named by fail is not delivered completely
GetFontTable(f, tag, fail) == IF tag = fail THEN f[tag] - 1 ELSE f[tag]

\* mutation of the size comparison: a short read is not noticed
TableComplete_ignored(nSize, nRead) == TRUE

\* "nSize != GetFontTable(...)" is false
TableComplete(nSize, nRead) == nSize = nRead

\* mutation of the short circuit: it is never taken
ShortCircuit_never(pj, nCffSize) == FALSE

\* pJustCFF != nullptr and *pJustCFF
ShortCircuit(pj, nCffSize) == pj = "set" /\ nCffSize > 0

\* "while( (nTableCount >> nLog2) > 1 ) ++nLog2"
RECURSIVE Log2(_)
Log2(n) == IF n > 1 THEN 1 + Log2(n \div 2) ELSE 0

\* nRead bytes of table tag written to the buffer at offset nOfs; data[k]
\* is the byte at offset base + k - 1
WriteTable(data, base, nOfs, tag, nRead) ==
    [k \in DOMAIN data |->
        IF nOfs - base < k /\ k <= nOfs - base + nRead
        THEN <<tag, k - (nOfs - base)>>
        ELSE data[k]]

\* FakeDirEntry: tag, offset and length of one directory entry
FakeDirEntry(aTag, nOfs, nLen) == [tag |-> aTag, ofs |-> nOfs, len |-> nLen]

\* The reads of the table data in the order of the code, for the table sizes
\* n; step.adv is what nOfs is advanced by after the table
AssemblySteps(n) ==
    LET S(tag, len, adv) == <<[tag |-> tag, len |-> len, adv |-> adv]>>
    IN S("cmap", n.nCmapSize, n.nCmapSize)
       \o (IF n.nCvtSize # 0 THEN S("cvt ", n.nCvtSize, n.nCvtSize) ELSE <<>>)
       \o (IF n.nFpgmSize # 0 THEN S("fpgm", n.nFpgmSize, n.nFpgmSize)
           ELSE <<>>)
       \o (IF n.nCffSize # 0
           THEN S("CFF ", n.nCffSize, n.nGlyfSize)
           ELSE S("glyf", n.nGlyfSize, n.nGlyfSize)
                \o S("loca", n.nLocaSize, n.nLocaSize))
       \o S("head", n.nHeadSize, n.nHeadSize)
       \o S("hhea", n.nHheaSize, n.nHheaSize)
       \o S("hmtx", n.nHmtxSize, n.nHmtxSize)
       \o S("maxp", n.nMaxpSize, n.nMaxpSize)
       \o S("name", n.nNameSize, n.nNameSize)
       \o (IF n.nPrepSize # 0 THEN S("prep", n.nPrepSize, n.nPrepSize)
           ELSE <<>>)

\* the reads from step k on; r is the result so far
RECURSIVE Assemble(_, _, _, _, _)
Assemble(f, fail, steps, k, r) ==
    IF k > Len(steps) THEN [r EXCEPT !.ret = TRUE]
    ELSE LET s     == steps[k]
             nRead == GetFontTable(f, s.tag, fail)
             w     == [r EXCEPT
                          !.data = WriteTable(r.data, r.nFdirSize, r.nOfs,
                                              s.tag, nRead),
                          !.complete = IF nRead = s.len THEN @ \cup {s.tag}
                                       ELSE @,
                          !.shortRead = IF nRead = s.len THEN @
                                        ELSE @ \cup {s.tag}]
         IN IF ~TableComplete(s.len, nRead)
            THEN [w EXCEPT !.ret = FALSE]
            ELSE Assemble(f, fail, steps, k + 1,
                          [w EXCEPT
                              !.dir = Append(@, FakeDirEntry(s.tag, r.nOfs,
                                                             s.len)),
                              !.nOfs = @ + s.adv])

\* GetRawFontData( pFontData, rBuffer, pJustCFF ) on an empty rBuffer
GetRawFontData_result(f, pj, fail) ==
    LET nCffSize  == f["CFF "]
        out       == IF pj = "set"
                     THEN [NoRaw EXCEPT !.done = TRUE,
                                        !.justCFF = IF nCffSize > 0
                                                    THEN "true" ELSE "false"]
                     ELSE [NoRaw EXCEPT !.done = TRUE]
        nHeadSize == f["head"]
        nMaxpSize == f["maxp"]
        nCmapSize == f["cmap"]
        nNameSize == f["name"]
        nHheaSize == f["hhea"]
        nHmtxSize == f["hmtx"]
        nLocaSize == IF nCffSize <= 0 THEN f["loca"] ELSE 0
        nGlyfSize == IF nCffSize <= 0 THEN f["glyf"] ELSE 0
        nPrepSize == IF nGlyfSize # 0 THEN f["prep"] ELSE 0
        nCvtSize  == IF nGlyfSize # 0 THEN f["cvt "] ELSE 0
        nFpgmSize == IF nGlyfSize # 0 THEN f["fpgm"] ELSE 0
        P(n)      == IF n > 0 THEN 1 ELSE 0
        nTableCount == 7 + P(nPrepSize) + P(nCvtSize) + P(nFpgmSize)
                         + P(nGlyfSize)
        nFdirSize == 12 + 16 * nTableCount
        nTotalSize == nFdirSize + nHeadSize + nMaxpSize + nNameSize + nCmapSize
                        + (IF nGlyfSize # 0 THEN nLocaSize + nGlyfSize
                           ELSE nCffSize)
                        + nHheaSize + nHmtxSize
                        + nPrepSize + nCvtSize + nFpgmSize
        nLog2     == Log2(nTableCount)
        hdr       == IF nTableCount < 16
                     THEN [scaler |-> 1, numTables |-> nTableCount,
                           searchRange |-> nLog2 * 16,
                           entrySelector |-> nLog2,
                           rangeShift |-> (nTableCount - nLog2) * 16]
                     ELSE NoHeader
        nCffRead  == GetFontTable(f, "CFF ", fail)
    IN IF ShortCircuit(pj, nCffSize)
       THEN [out EXCEPT
                !.size = nCffSize,
                !.data = WriteTable([k \in 1..nCffSize |-> <<"", 0>>], 0, 0,
                                    "CFF ", nCffRead),
                !.ret = TableComplete(nCffSize, nCffRead),
                !.complete = IF nCffRead = nCffSize THEN {"CFF "} ELSE {},
                !.shortRead = IF nCffRead = nCffSize THEN {} ELSE {"CFF "}]
       ELSE IF \/ nHeadSize <= 0 \/ nMaxpSize <= 0 \/ nCmapSize <= 0
               \/ nNameSize <= 0 \/ nHheaSize <= 0 \/ nHmtxSize <= 0
       THEN out
       ELSE IF nCffSize <= 0 /\ (nLocaSize <= 0 \/ nGlyfSize <= 0)
       THEN out
       ELSE Assemble(f, fail,
                     AssemblySteps(
                         [nCmapSize |-> nCmapSize, nCvtSize |-> nCvtSize,
                          nFpgmSize |-> nFpgmSize, nCffSize |-> nCffSize,
                          nGlyfSize |-> nGlyfSize, nLocaSize |-> nLocaSize,
                          nHeadSize |-> nHeadSize, nHheaSize |-> nHheaSize,
                          nHmtxSize |-> nHmtxSize, nMaxpSize |-> nMaxpSize,
                          nNameSize |-> nNameSize, nPrepSize |-> nPrepSize]),
                     1,
                     [out EXCEPT
                         !.sfnt = TRUE, !.size = nTotalSize,
                         !.nFdirSize = nFdirSize, !.nTotalSize = nTotalSize,
                         !.nOfs = nFdirSize, !.hdr = hdr,
                         !.data = [k \in 1..(nTotalSize - nFdirSize) |->
                                      <<"", 0>>]])

\* one call of GetRawFontData on the font; any one table, or none, may be
\* delivered incompletely
GetRawFontData ==
    /\ ~raw.done
    /\ \E fail \in Tags \cup {"none"} :
          raw' = GetRawFontData_result(font, pJustCFF, fail)
    /\ UNCHANGED <<font, pJustCFF>>
    /\ UNCHANGED <<cacheVars, substVars, drawVars>>
    /\ UNCHANGED <<linkVars, updVars, embedVars, toxVars, writerVars>>

(***************************************************************************)
(* The system font list cache: GetDevFontList, ClearDevFontCache           *)
(***************************************************************************)
MaxFontCalls == 6     \* calls of GetDevFontList / ClearDevFontCache in a run

\* SalData after start-up: no font list, nothing created or deleted;
\* bFirst is the static flag of AddLocalTempFontDirs
NewSalData ==
    [mpFontList |-> 0, created |-> 0, deleted |-> {}, bFirst |-> TRUE,
     hook |-> FALSE]

\* GetCoretextFontList(): enumerates the system fonts into a new list; lists
\* are numbered in the order of their creation
GetCoretextFontList(created) == created + 1

\* mutation of the cache test: the list is built on every call
CacheIsEmpty_always(sd) == TRUE

\* "!pSalData->mpFontList"
CacheIsEmpty(sd) == sd.mpFontList = 0

\* AquaSalGraphics::GetDevFontList
GetDevFontList ==
    /\ Len(fontLog) < MaxFontCalls
    /\ LET bEnum == CacheIsEmpty(salData)
           pList == IF bEnum THEN GetCoretextFontList(salData.created)
                    ELSE salData.mpFontList
       IN /\ salData' = [salData EXCEPT
                            !.bFirst = FALSE,
                            !.mpFontList = pList,
                            !.created = IF bEnum THEN @ + 1 ELSE @,
                            !.hook = TRUE]
          /\ fontLog' = Append(fontLog,
                               [op |-> "GetDevFontList",
                                enumerated |-> bEnum,
                                wasEmpty |-> salData.mpFontList = 0,
                                announcedOn |-> pList,
                                announcedLive |-> pList # 0
                                                  /\ pList \notin salData.deleted,
                                after |-> pList])
    /\ UNCHANGED <<rawVars, substVars, drawVars>>
    /\ UNCHANGED <<linkVars, updVars, embedVars, toxVars, writerVars>>

\* AquaSalGraphics::ClearDevFontCache
ClearDevFontCache ==
    /\ Len(fontLog) < MaxFontCalls
    /\ salData' = [salData EXCEPT
                      !.deleted = IF salData.mpFontList # 0
                                  THEN @ \cup {salData.mpFontList} ELSE @,
                      !.mpFontList = 0]
    /\ fontLog' = Append(fontLog,
                         [op |-> "ClearDevFontCache",
                          enumerated |-> FALSE,
                          wasEmpty |-> salData.mpFontList = 0,
                          announcedOn |-> 0,
                          announcedLive |-> FALSE,
                          after |-> 0])
    /\ UNCHANGED <<rawVars, substVars, drawVars>>
    /\ UNCHANGED <<linkVars, updVars, embedVars, toxVars, writerVars>>

(***************************************************************************)
(* CoreTextGlyphFallbackSubstititution::FindFontSubstitute                 *)
(***************************************************************************)
MaxChars == 3         \* UTF-16 code units of rMissingChars

\* UTF-16 code units: two BMP characters, a high and a low surrogate
Units == {"a", "b", "H", "L"}

\* the code points a fallback font can have glyphs for
GlyphCandidates == {<<"a">>, <<"b">>, <<"H", "L">>}

\* the attributes DevFontFromCTFontDescriptor reads from the fallback font
FallbackAttr ==
    [maSearchName |-> "Fallback", weight |-> "bold", italic |-> "italic",
     pitch |-> "fixed", width |-> "condensed"]

\* rPattern as the caller passes it
RequestedPattern ==
    [maSearchName |-> "Requested", weight |-> "normal", italic |-> "none",
     pitch |-> "variable", width |-> "normal"]

\* CreateCFString gives a string or nullptr, CTFontCreateForString a font
\* with some glyphs or nullptr
Fallbacks ==
    {[hasStr |-> FALSE, hasFont |-> FALSE, glyphs |-> {}]}
    \cup {[hasStr |-> TRUE, hasFont |-> FALSE, glyphs |-> {}]}
    \cup {[hasStr |-> TRUE, hasFont |-> TRUE, glyphs |-> g] :
             g \in SUBSET GlyphCandidates}

NoSubstRes ==
    [done |-> FALSE, ret |-> FALSE, inMissing |-> <<>>,
     inPattern |-> RequestedPattern]

\* mutation of iterateCodePoints: one code unit at a time
iterateCodePoints_unit(s, nIndex) == nIndex + 1

\* OUString::iterateCodePoints( &nIndex ): the index after the code point at
\* nIndex; a high surrogate followed by a low one is one code point
iterateCodePoints(s, nIndex) ==
    IF /\ s[nIndex + 1] = "H"
       /\ nIndex + 1 < Len(s)
       /\ s[nIndex + 2] = "L"
    THEN nIndex + 2
    ELSE nIndex + 1

\* FontHasCharacter: CTFontGetGlyphsForCharacters maps all nLen code units
FontHasCharacter(glyphs, rString, nIndex, nLen) ==
    SubSeq(rString, nIndex + 1, nIndex + nLen) \in glyphs

\* the loop that collects aStillMissingChars, from nStrIndex on
RECURSIVE StillMissingChars(_, _, _)
StillMissingChars(glyphs, rMissingChars, nStrIndex) ==
    IF nStrIndex >= Len(rMissingChars) THEN <<>>
    ELSE LET nNext       == iterateCodePoints(rMissingChars, nStrIndex)
             nCharLength == nNext - nStrIndex
         IN (IF ~FontHasCharacter(glyphs, rMissingChars, nStrIndex,
                                  nCharLength)
             THEN SubSeq(rMissingChars, nStrIndex + 1, nNext)
             ELSE <<>>)
            \o StillMissingChars(glyphs, rMissingChars, nNext)

\* FindFontSubstitute( rPattern, pLogicalFont, rMissingChars )
FindFontSubstitute ==
    /\ ~substRes.done
    /\ LET bFound == fallback.hasStr /\ fallback.hasFont
       IN /\ substRes' = [done |-> TRUE, ret |-> bFound,
                          inMissing |-> missing, inPattern |-> pattern]
          /\ missing' = IF bFound
                        THEN StillMissingChars(fallback.glyphs, missing, 0)
                        ELSE missing
          /\ pattern' = IF bFound THEN FallbackAttr ELSE pattern
    /\ UNCHANGED fallback
    /\ UNCHANGED <<rawVars, cacheVars, drawVars>>
    /\ UNCHANGED <<linkVars, updVars, embedVars, toxVars, writerVars>>

(***************************************************************************)
(* AquaGraphicsBackend::drawTextLayout                                     *)
(***************************************************************************)
MaxGlyphs == 3        \* glyphs of a layout

\* font height and rotation of the style: mnHeight, mfFontRotation != 0; the
\* build (IOS defined or not) and, in the iOS build, mbForeignContext of the
\* shared attributes
Styles ==
    {s \in [mnHeight : {0, 12}, rotated : BOOLEAN, IOS : BOOLEAN,
            mbForeignContext : BOOLEAN] : s.mbForeignContext => s.IOS}

\* AquaSharedAttributes::checkContext
checkContext == style.mbForeignContext

\* #ifdef IOS if (!mrShared.checkContext()) return;
NoContext == style.IOS /\ ~checkContext

\* saveState / restoreState of the context holder: current depth and the
\* number of saveState calls
NoDepth == [now |-> 0, saves |-> 0]

\* aGlyphOrientation[i]: bUprightGlyph of the glyph at 0-based index i
aGlyphOrientation(i) == style.rotated /\ layout[i + 1]

\* mutation of the run boundary: every glyph is a run of its own
FindRunEnd_single(first, bValue) == first + 1

\* std::find( aIt, cend(), !bUprightGlyph ): index of the first glyph from
\* first on whose orientation is bValue, Len(layout) for cend()
FindRunEnd(first, bValue) ==
    IF \E j \in first..(Len(layout) - 1) : aGlyphOrientation(j) = bValue
    THEN CHOOSE j \in first..(Len(layout) - 1) :
            /\ aGlyphOrientation(j) = bValue
            /\ \A i \in first..(j - 1) : aGlyphOrientation(i) # bValue
    ELSE Len(layout)

\* drawTextLayout up to the run loop: the early returns (in the iOS build
\* the one without context first), the collection of the glyphs and the
\* outer saveState
drawTextLayout_enter ==
    /\ dpc = "idle"
    /\ IF NoContext \/ style.mnHeight = 0 \/ layout = <<>>
       THEN /\ dpc' = "done"
            /\ UNCHANGED <<aIt, depth, draws>>
       ELSE /\ dpc' = "runs"
            /\ aIt' = 0
            /\ depth' = [now |-> depth.now + 1, saves |-> depth.saves + 1]
            /\ draws' = <<>>
    /\ UNCHANGED <<layout, style>>
    /\ UNCHANGED <<rawVars, cacheVars, substVars>>
    /\ UNCHANGED <<linkVars, updVars, embedVars, toxVars, writerVars>>

\* one round of "while (aIt != aGlyphOrientation.cend())": saveState,
\* CTFontDrawGlyphs of the run, restoreState
drawTextLayout_run ==
    /\ dpc = "runs"
    /\ aIt # Len(layout)
    /\ LET bUprightGlyph == aGlyphOrientation(aIt)
           aNext         == FindRunEnd(aIt, ~bUprightGlyph)
       IN /\ draws' = Append(draws, [start |-> aIt, len |-> aNext - aIt,
                                     upright |-> bUprightGlyph,
                                     depth |-> depth.now + 1])
          /\ aIt' = aNext
    /\ depth' = [depth EXCEPT !.saves = @ + 1]
    /\ UNCHANGED <<layout, style, dpc>>
    /\ UNCHANGED <<rawVars, cacheVars, substVars>>
    /\ UNCHANGED <<linkVars, updVars, embedVars, toxVars, writerVars>>

\* the loop is left: the outer restoreState and the return
drawTextLayout_return ==
    /\ dpc = "runs"
    /\ aIt = Len(layout)
    /\ depth' = [depth EXCEPT !.now = @ - 1]
    /\ dpc' = "done"
    /\ UNCHANGED <<layout, style, aIt, draws>>
    /\ UNCHANGED <<rawVars, cacheVars, substVars>>
    /\ UNCHANGED <<linkVars, updVars, embedVars, toxVars, writerVars>>

(***************************************************************************)
(* Idle states of the Writer and of the graphics backend                   *)
(***************************************************************************)
WriterIdle ==
    /\ ring = <<>>
    /\ writer = NewWriter(FALSE)
    /\ wpc = "idle"
    /\ wlog = NoWriteLog
    /\ iter = NoIter

RawIdle ==
    /\ font = [t \in Tags |-> 0]
    /\ pJustCFF = "null"
    /\ raw = NoRaw

CacheIdle ==
    /\ salData = NewSalData
    /\ fontLog = <<>>

SubstIdle ==
    /\ missing = <<>>
    /\ fallback = [hasStr |-> FALSE, hasFont |-> FALSE, glyphs |-> {}]
    /\ pattern = RequestedPattern
    /\ substRes = NoSubstRes

DrawIdle ==
    /\ layout = <<>>
    /\ style = [mnHeight |-> 0, rotated |-> FALSE, IOS |-> FALSE,
                mbForeignContext |-> FALSE]
    /\ dpc = "idle"
    /\ aIt = 0
    /\ depth = NoDepth
    /\ draws = <<>>

VclIdle == RawIdle /\ CacheIdle /\ SubstIdle /\ DrawIdle

(***************************************************************************)
(* Initial states                                                          *)
(***************************************************************************)
LinkDynInit ==
    /\ markRef  = [i \in DOMAIN marks |-> 0]
    /\ sectRef  = [i \in DOMAIN sections |-> 0]
    /\ tableRef = [i \in DOMAIN tables |-> 0]
    /\ servers  = <<>>
    /\ firstRet = [i \in Items |-> -1]
    /\ call     = NoCall

LinkIdle ==
    /\ marks = <<>> /\ sections = <<>> /\ tables = <<>>
    /\ flys = <<>> /\ outlines = <<>>
    /\ LinkDynInit

UpdIdle ==
    /\ shell = NoShell
    /\ userAllows = FALSE
    /\ updLog = NoUpdLog

EmbedIdle ==
    /\ links = <<>>
    /\ closed = <<>>
    /\ epc = "idle"
    /\ bRet = FALSE
    /\ origLinks = <<>>

ToxIdle ==
    /\ fields = <<>>
    /\ rows = <<>>
    /\ upToDate = FALSE

\* a document with at most MaxLinkObjs bookmarks, sections and tables
InitLinks ==
    /\ marks \in NamedSeqs(Marks, MaxLinkObjs)
    /\ sections \in NamedSeqs(Sections, MaxLinkObjs - Len(marks))
    /\ tables \in NamedSeqs(Tables, MaxLinkObjs - Len(marks) - Len(sections))
    /\ flys = <<>>
    /\ outlines = <<>>
    /\ LinkDynInit
    /\ UpdIdle /\ EmbedIdle /\ ToxIdle
    /\ WriterIdle /\ VclIdle

\* names with and without "<separator>kind", the separator also escaped
SelNames == {<<"a">>, <<"A">>, <<"b">>}
SelKinds == {kwTable, kwFrame, kwRegion, kwOutline,
             <<"T", "a", "b", "l", "e">>, <<"x">>}
SelItems ==
    SelNames \cup {n \o <<s>> \o k : n \in SelNames, s \in {"|"}, k \in SelKinds}
        \cup {n \o <<"%7C">> \o k : n \in {<<"a">>}, k \in {kwTable, kwRegion}}

\* a document with at most MaxSelObjs objects SelectServerObj can find
InitSelect ==
    /\ marks \in NamedSeqs(Marks, MaxSelObjs)
    /\ sections \in NamedSeqs(Sections, MaxSelObjs - Len(marks))
    /\ tables \in NamedSeqs(Tables, MaxSelObjs - Len(marks) - Len(sections))
    /\ flys \in NamedSeqs(Flys, MaxSelObjs - Len(marks) - Len(sections)
                                   - Len(tables))
    /\ outlines \in SeqsUpTo(Outlines, MaxSelObjs - Len(marks) - Len(sections)
                                          - Len(tables) - Len(flys))
    /\ LinkDynInit
    /\ UpdIdle /\ EmbedIdle /\ ToxIdle
    /\ WriterIdle /\ VclIdle

NextSelect == \E rStr \in SelItems : SelectServerObj(rStr)

SpecSelect == InitSelect /\ [][NextSelect]_vars

NextLinks ==
    \E rItem \in Items : GetData(rItem) \/ CreateLinkSource(rItem)

SpecLinks == InitLinks /\ [][NextLinks]_vars

\* any document shell (or none), any flag value, an empty or non-empty link
\* list
InitUpdate ==
    /\ shell \in {sh \in Shells :
                     /\ ~sh.has => sh = NoShell
                     /\ ~sh.hasMedium => sh.mediumName = ""}
    /\ userAllows \in BOOLEAN
    /\ updLog = NoUpdLog
    /\ links \in {<<>>, <<[id |-> 1, objType |-> "ClientDde", isSw |-> TRUE,
                         fname |-> <<>>]>>}
    /\ closed = [i \in DOMAIN links |-> 0]
    /\ epc = "idle"
    /\ bRet = FALSE
    /\ origLinks = links
    /\ LinkIdle /\ ToxIdle
    /\ WriterIdle /\ VclIdle

NextUpdate == UpdateLinks

SpecUpdate == InitUpdate /\ [][NextUpdate]_vars

\* any list of at most MaxLinks links, ids in list order
InitEmbed ==
    /\ \E q \in SeqsUpTo(LinkShapes, MaxLinks) :
          links = [i \in DOMAIN q |->
                     [id |-> i, objType |-> q[i].objType, isSw |-> q[i].isSw,
                      fname |-> q[i].fname]]
    /\ closed = [i \in DOMAIN links |-> 0]
    /\ epc = "idle"
    /\ bRet = FALSE
    /\ origLinks = links
    /\ LinkIdle /\ UpdIdle /\ ToxIdle
    /\ WriterIdle /\ VclIdle

NextEmbed ==
    \/ EmbedAllLinks_enter
    \/ EmbedAllLinks_step
    \/ EmbedAllLinks_return

\* a running EmbedAllLinks goes on running (one thread, no blocking call)
SpecEmbed == InitEmbed /\ [][NextEmbed]_vars /\ WF_vars(EmbedAllLinks_step)

\* an empty document
InitTox ==
    /\ fields = <<>>
    /\ rows = <<>>
    /\ upToDate = FALSE
    /\ LinkIdle /\ UpdIdle /\ EmbedIdle
    /\ WriterIdle /\ VclIdle

NextTox ==
    \/ \E f \in AuthFields : InsertField(f)
    \/ UpdateTable

SpecTox == InitTox /\ [][NextTox]_vars

\* a non-empty ring of at most MaxRing PaMs and a new Writer, for storages
\* or not
InitWriter ==
    /\ ring \in SeqsUpTo(PaMs, MaxRing) \ {<<>>}
    /\ writer \in {NewWriter(b) : b \in BOOLEAN}
    /\ wpc = "idle"
    /\ wlog = NoWriteLog
    /\ iter = NoIter
    /\ LinkIdle /\ UpdIdle /\ EmbedIdle /\ ToxIdle /\ VclIdle

NextWriter ==
    \/ \E pStream \in {0, 1} : SetStream(pStream)
    \/ \E rPaM \in DOMAIN ring, pFName \in FileNamePtrs :
          Write_noStorage(rPaM, pFName)
    \/ \E via \in StgEntries, rPaM \in DOMAIN ring, pFName \in FileNamePtrs :
          Write_stg_call(via, rPaM, pFName)
    \/ Write_stg_return
    \/ Write_stg_abort
    \/ \E rPaM \in DOMAIN ring, pFName \in FileNamePtrs :
          Write_call(rPaM, pFName)
    \/ CopyNextPam
    \/ Write_return
    \/ Write_throw

SpecWriter == InitWriter /\ [][NextWriter]_vars

\* any font, with or without pJustCFF
InitRaw ==
    /\ font \in Fonts
    /\ pJustCFF \in {"null", "set"}
    /\ raw = NoRaw
    /\ CacheIdle /\ SubstIdle /\ DrawIdle
    /\ LinkIdle /\ UpdIdle /\ EmbedIdle /\ ToxIdle /\ WriterIdle

NextRaw == GetRawFontData

SpecRaw == InitRaw /\ [][NextRaw]_vars

InitCache ==
    /\ CacheIdle
    /\ RawIdle /\ SubstIdle /\ DrawIdle
    /\ LinkIdle /\ UpdIdle /\ EmbedIdle /\ ToxIdle /\ WriterIdle

\* the calls are serialised by the solar mutex: one at a time
NextCache ==
    \/ GetDevFontList
    \/ ClearDevFontCache

SpecCache == InitCache /\ [][NextCache]_vars

\* any string of at most MaxChars code units, any outcome of the fallback
\* search
InitSubst ==
    /\ missing \in SeqsUpTo(Units, MaxChars)
    /\ fallback \in Fallbacks
    /\ pattern = RequestedPattern
    /\ substRes = NoSubstRes
    /\ RawIdle /\ CacheIdle /\ DrawIdle
    /\ LinkIdle /\ UpdIdle /\ EmbedIdle /\ ToxIdle /\ WriterIdle

NextSubst == FindFontSubstitute

SpecSubst == InitSubst /\ [][NextSubst]_vars

\* any layout of at most MaxGlyphs glyphs, any style
InitDraw ==
    /\ layout \in SeqsUpTo(BOOLEAN, MaxGlyphs)
    /\ style \in Styles
    /\ dpc = "idle"
    /\ aIt = 0
    /\ depth = NoDepth
    /\ draws = <<>>
    /\ RawIdle /\ CacheIdle /\ SubstIdle
    /\ LinkIdle /\ UpdIdle /\ EmbedIdle /\ ToxIdle /\ WriterIdle

NextDraw ==
    \/ drawTextLayout_enter
    \/ drawTextLayout_run
    \/ drawTextLayout_return

\* a running drawTextLayout goes on running (one thread, no blocking call)
SpecDraw ==
    InitDraw /\ [][NextDraw]_vars
        /\ WF_vars(drawTextLayout_run) /\ WF_vars(drawTextLayout_return)

\* a document of at most MaxOutlines outline nodes and nothing else
MaxOutlines == 3

OutlineItems == {n \o <<"|">> \o kwOutline : n \in SelNames}

InitOutline ==
    /\ marks = <<>> /\ sections = <<>> /\ tables = <<>> /\ flys = <<>>
    /\ outlines \in SeqsUpTo(Outlines, MaxOutlines)
    /\ LinkDynInit
    /\ UpdIdle /\ EmbedIdle /\ ToxIdle
    /\ WriterIdle /\ VclIdle

NextOutline == \E rStr \in OutlineItems : SelectServerObj(rStr)

SpecOutline == InitOutline /\ [][NextOutline]_vars

(***************************************************************************)
(* C4: resolution order of GetData and CreateLinkSource                    *)
(***************************************************************************)
\* the order the claim states: exact DDE bookmark, exact section,
\* case-insensitive DDE bookmark, case-insensitive section, case-insensitive
\* table.  With onlyExpanded the first DDE bookmark a round finds counts as a
\* hit only when it is expanded.
C4_Order(rItem, onlyExpanded) ==
    LET sameCi(n) == lowercase(n) = lowercase(rItem)
        taken(i) == i # 0 /\ (onlyExpanded => marks[i].expanded)
        bmEx  == FirstIdx(Len(marks), LAMBDA i :
                    marks[i].isDde /\ marks[i].name = rItem)
        secEx == FirstIdx(Len(sections), LAMBDA i :
                    sections[i].inNodes /\ sections[i].name = rItem)
        bmCi  == FirstIdx(Len(marks), LAMBDA i :
                    marks[i].isDde /\ sameCi(marks[i].name))
        secCi == FirstIdx(Len(sections), LAMBDA i :
                    sections[i].inNodes /\ sameCi(sections[i].name))
        tabCi == FirstIdx(Len(tables), LAMBDA i :
                    tables[i].inNodes /\ sameCi(tables[i].name))
    IN IF taken(bmEx) THEN <<"mark", bmEx>>
       ELSE IF secEx # 0 THEN <<"section", secEx>>
       ELSE IF taken(bmCi) THEN <<"mark", bmCi>>
       ELSE IF secCi # 0 THEN <<"section", secCi>>
       ELSE IF tabCi # 0 THEN <<"table", tabCi>>
       ELSE None

\* C4 as stated: GetData and CreateLinkSource both resolve the item in the
\* order exact DDE bookmark, exact section, case-insensitive DDE bookmark,
\* case-insensitive section, case-insensitive table, stopping at the first
\* hit, every DDE bookmark with a matching name being a hit.
C4_AsStated ==
    call.op \in {"GetData", "CreateLinkSource"}
        => call.target = C4_Order(call.item, FALSE)

\* C4 amended: GetData resolves the item in the stated order, every DDE
\* bookmark of a matching name being a hit; CreateLinkSource resolves it in
\* the same order but takes the DDE bookmark a round finds only when it is
\* expanded (otherwise that round goes on with the sections).  In both, an
\* exact-case section wins over a DDE bookmark matching only
\* case-insensitively, and a table is used only when no section matches in
\* either round and no DDE bookmark matches (for CreateLinkSource: no
\* expanded DDE bookmark is found by either round).
C4_OrderAmended ==
    /\ call.op = "GetData"
          => call.target = C4_Order(call.item, FALSE)
    /\ call.op = "CreateLinkSource"
          => call.target = C4_Order(call.item, TRUE)
    /\ call.op \in {"GetData", "CreateLinkSource"}
          => /\ (/\ \E i \in DOMAIN sections :
                       sections[i].inNodes /\ sections[i].name = call.item
                 /\ ~\E i \in DOMAIN marks :
                       marks[i].isDde /\ marks[i].name = call.item)
                => call.target[1] = "section"
             /\ call.target[1] = "table"
                => /\ ~\E i \in DOMAIN sections :
                        /\ sections[i].inNodes
                        /\ lowercase(sections[i].name) = lowercase(call.item)
                   /\ call.op = "GetData"
                        => ~\E i \in DOMAIN marks :
                             /\ marks[i].isDde
                             /\ lowercase(marks[i].name) = lowercase(call.item)
                   /\ \A cs \in BOOLEAN :
                        LET b == lcl_FindDdeBookmark(call.item, cs)
                        IN b # 0 => ~marks[b].expanded

\* CreateLinkSource passed over the unexpanded DDE bookmark of exactly the
\* name asked for and linked the section of that name
C4_Witness ==
    /\ call.op = "CreateLinkSource"
    /\ call.target[1] = "section"
    /\ sections[call.target[2]].name = call.item
    /\ \E i \in DOMAIN marks :
          marks[i].isDde /\ ~marks[i].expanded /\ marks[i].name = call.item

(***************************************************************************)
(* C5: CreateLinkSource creates one server object per target               *)
(***************************************************************************)
\* the server objects the targets hold
HeldRefs ==
    {markRef[i] : i \in DOMAIN markRef} \cup {sectRef[i] : i \in DOMAIN sectRef}
        \cup {tableRef[i] : i \in DOMAIN tableRef}

AllTargets ==
    ({"mark"} \X DOMAIN marks) \cup ({"section"} \X DOMAIN sections)
        \cup ({"table"} \X DOMAIN tables)

\* C5: after any sequence of CreateLinkSource calls every target holds at most
\* one server object, InsertServer was called exactly once for each target
\* that was ever resolved (and for nothing else), a repeated call with the
\* same item returns the object of the first call, and nullptr is returned
\* exactly when no target is resolved.
C5_OneServerPerTarget ==
    /\ \A i, j \in DOMAIN servers : i # j => servers[i] # servers[j]
    /\ \A t, u \in AllTargets : RefOf(t) # 0 /\ RefOf(t) = RefOf(u) => t = u
    /\ {servers[i] : i \in DOMAIN servers} = HeldRefs \ {0}
    /\ Len(servers) = Cardinality({t \in AllTargets : RefOf(t) # 0})
    /\ \A it \in Items :
          firstRet[it] # -1 /\ CreateLinkSource_target(it) # None
             => /\ RefOf(CreateLinkSource_target(it)) = firstRet[it]
                /\ Cardinality({i \in DOMAIN servers :
                                  servers[i] = firstRet[it]}) = 1
    /\ \A t \in AllTargets :
          RefOf(t) # 0 => \E it \in Items :
             firstRet[it] # -1 /\ CreateLinkSource_target(it) = t
    /\ call.op = "CreateLinkSource"
          => /\ call.obj = firstRet[call.item]
             /\ (call.obj = 0) <=> (call.target = None)
             /\ call.obj # 0 => call.obj = RefOf(call.target)

\* the object created first is returned again after another target got its
\* own object
C5_Witness ==
    /\ call.op = "CreateLinkSource"
    /\ Len(servers) >= 2
    /\ call.obj = servers[1]
    /\ \E it \in Items : firstRet[it] = 0

(***************************************************************************)
(* C6: outputs of SelectServerObj                                          *)
(***************************************************************************)
\* C6: SelectServerObj clears both outputs on entry and returns true if and
\* only if exactly one of them is set on return: rpPam for an expanded DDE
\* bookmark, roRange for a table, frame, outline or section; when it returns
\* false rpPam is null and roRange is empty, whatever the caller passed in.
C6_OutputsMatchResult ==
    call.op = "SelectServerObj"
       => /\ call.ret <=> ((call.pam # 0) # (call.range # NoRange))
          /\ ~call.ret => call.pam = 0 /\ call.range = NoRange
          /\ call.pam # 0
                => marks[call.pam].isDde /\ marks[call.pam].expanded
          /\ call.range # NoRange
                => call.range[1] \in {"table", "frame", "outline", "section"}

\* a call that failed although the caller's rpPam pointed to a PaM on entry
C6_Witness ==
    /\ call.op = "SelectServerObj"
    /\ ~call.ret
    /\ call.inPam # 0
    /\ call.pam = 0

(***************************************************************************)
(* C7: dispatch on "name<separator>kind"                                   *)
(***************************************************************************)
\* C7: an item name<separator>kind is resolved only within the named kind:
\* for kind table, frame or outline the result is a range of that kind or
\* false, never a result of the bookmark/section search; for kind region
\* the result is that of the bookmark/section search for the name part; any
\* other kind returns false; an item without separator is resolved by the
\* bookmark/section search.
C7_KindDispatch ==
    call.op = "SelectServerObj"
       => LET d     == decode(call.item)
              nPos  == indexOf(d, cMarkSeparator)
              name  == copy(d, nPos)
              kind  == subView(d, nPos + 1)
              got   == Result(call.ret, call.pam, call.range)
              within(k) == /\ call.pam = 0
                           /\ call.range[1] \in {k, "none"}
                           /\ call.ret <=> call.range[1] = k
          IN IF nPos = -1 THEN got = SelectServerObj_search(d, 0, NoRange)
             ELSE IF kind = kwTable THEN within("table")
             ELSE IF kind = kwFrame THEN within("frame")
             ELSE IF kind = kwOutline THEN within("outline")
             ELSE IF kind = kwRegion
                  THEN got = SelectServerObj_search(name, 0, NoRange)
             ELSE got = Result(FALSE, 0, NoRange)

(***************************************************************************)
(* C8, C9: UpdateLinks                                                     *)
(***************************************************************************)
\* the conditions C8 lists, NO_UPDATE apart
C8_MayUpdate ==
    /\ shell.has
    /\ shell.createMode \notin {"INTERNAL", "ORGANIZER"}
    /\ ~shell.preview
    /\ links # <<>>
    /\ ~(shell.linkMode = "NEVER" /\ shell.updateDocMode # "FULL_UPDATE")

C9_AskUpdate ==
    updLog.done /\ Len(updLog.asked) = 1
       => LET loc == IF shell.hasMedium THEN shell.mediumName ELSE ""
          IN updLog.asked[1]
                <=> \/ shell.updateDocMode = "FULL_UPDATE"
                    \/ /\ shell.linkMode = "MANUAL"
                       /\ shell.updateDocMode # "QUIET_UPDATE"
                    \/ /\ shell.linkMode = "AUTOMATIC"
                       /\ loc \notin shell.trusted

\* AUTOMATIC and QUIET_UPDATE from an untrusted location of a document
\* without medium: the user is asked
C9_Witness ==
    /\ updLog.done
    /\ updLog.asked = <<TRUE>>
    /\ shell.linkMode = "AUTOMATIC"
    /\ shell.updateDocMode = "QUIET_UPDATE"
    /\ ~shell.hasMedium
    /\ "" \notin shell.trusted
    /\ "loc" \in shell.trusted

(***************************************************************************)
(* C10: EmbedAllLinks                                                      *)
(***************************************************************************)
\* a removable link as C10 describes it
C10_Removable(l) ==
    /\ l.isSw
    /\ l.objType \in {"ClientGraphic", "ClientFile"}
    /\ HasPrefix(l.fname, schemeFile) \/ HasPrefix(l.fname, schemeCid)

\* what holds when EmbedAllLinks returns
C10_OnReturn ==
    epc = "done"
       => /\ \A i \in DOMAIN links : ~C10_Removable(links[i])
          /\ links = SelectSeq(origLinks, LAMBDA l : ~C10_Removable(l))
          /\ \A i \in DOMAIN origLinks :
                IF C10_Removable(origLinks[i])
                THEN closed[origLinks[i].id] = 1
                ELSE closed[origLinks[i].id] = 0
          /\ bRet <=> \E i \in DOMAIN origLinks : C10_Removable(origLinks[i])
          /\ origLinks = <<>> => ~bRet

\* C10: EmbedAllLinks terminates, and on return the link manager holds no
\* removable link (a SwBaseLink of type ClientGraphic or ClientFile whose
\* file name has the protocol file: or cid:), Closed() was called once on
\* each removed link and never on the others, which are still in the
\* manager, and the result is true exactly when a link was removed.
C10_EmbedAllLinks ==
    /\ [](C10_OnReturn)
    /\ (epc = "loop") ~> (epc = "done")

\* a file link was removed and the link after it was kept
C10_Witness ==
    /\ epc = "done"
    /\ bRet
    /\ Len(origLinks) = 2
    /\ Len(links) = 1
    /\ origLinks[2] = links[1]
    /\ origLinks[1].objType = "ClientFile"
    /\ closed[origLinks[1].id] = 1

(***************************************************************************)
(* C1, C2: bibliography table                                              *)
(***************************************************************************)
\* two URLs that are equal or differ only in what follows the "#"
SameBase(u1, u2) ==
    \E k \in 0..Len(u1) :
       /\ k <= Len(u2)
       /\ SubSeq(u1, 1, k) = SubSeq(u2, 1, k)
       /\ \A i \in 1..k : u1[i] # "#"
       /\ k = Len(u1) \/ u1[k + 1] = "#"
       /\ k = Len(u2) \/ u2[k + 1] = "#"

SameSource(f, g) ==
    f.id = g.id /\ f.author = g.author /\ SameBase(f.url, g.url)

\* C1: after an update the table has one row per source, fields that
\* differ only in the fragment of the URL sharing a row and every other
\* field having a row of its own.
C1_OneRowPerSource ==
    upToDate
       => /\ \A i \in DOMAIN fields :
                Cardinality({r \in DOMAIN rows :
                                SameSource(rows[r], fields[i])}) = 1
          /\ \A r \in DOMAIN rows :
                \E i \in DOMAIN fields : SameSource(rows[r], fields[i])
          /\ Len(rows) =
                Cardinality({{j \in DOMAIN fields :
                                 SameSource(fields[i], fields[j])} :
                             i \in DOMAIN fields})

\* three fields, two of them for pages of one document: two rows
C1_Witness ==
    /\ upToDate
    /\ Len(fields) = 3
    /\ Len(rows) = 2
    /\ fields[1].author = fields[2].author
    /\ fields[2].author = fields[3].author
    /\ fields[1].url = <<"u", "#", "page=", "1">>
    /\ fields[2].url = <<"u", "#", "page=", "2">>
    /\ fields[3].url = <<"v">>

\* C2: after an update the URL portion of a field's row links to the URL
\* of the field without its page fragment: a URL without fragment is kept
\* as it is, and U#page=N gives U.
C2_LinkWithoutFragment ==
    upToDate
       => \A i \in DOMAIN fields :
             \E r \in DOMAIN rows :
                /\ rows[r].id = fields[i].id
                /\ rows[r].author = fields[i].author
                /\ (\A k \in DOMAIN fields[i].url : fields[i].url[k] # "#")
                      => rows[r].link = fields[i].url
                /\ \A u \in Urls, n \in {"1", "2"} :
                      fields[i].url = u \o <<"#", "page=", n>>
                         => rows[r].link = u

\* a field for page 1 of u whose row links to u
C2_Witness ==
    /\ upToDate
    /\ \E i \in DOMAIN fields : fields[i].url = <<"u", "#", "page=", "1">>
    /\ \E i \in DOMAIN fields : fields[i].url = <<"v">>
    /\ \E r \in DOMAIN rows : rows[r].link = <<"u">>
    /\ \E r \in DOMAIN rows : rows[r].link = <<"v">>

(***************************************************************************)
(* C11: Writer::Write on a non-storage writer                              *)
(***************************************************************************)
\* C11: Write(SwPaM&, SvStream&, name) on a non-storage writer has set the
\* document, the original file name, the stream, the original PaM and a
\* current PaM from rPaM.Start() to rPaM.End() when it calls WriteStream, it
\* calls WriteStream once, it returns WriteStream's error code unchanged and,
\* whatever that code is, on return document, current PaM, original file name
\* and stream are null.
C11_Write ==
    /\ (wpc = "stream" =>
          /\ ~writer.isStg
          /\ wlog.wsCalls = 1
          /\ wlog.atCall.pDoc # 0
          /\ wlog.atCall.pOrigFileName = wlog.pFName
          /\ wlog.atCall.pStream # 0
          /\ wlog.atCall.pOrigPam = wlog.rPaM
          /\ wlog.atCall.pCurrentPam.has
          /\ wlog.atCall.pCurrentPam.point = Start(ring[wlog.rPaM])
          /\ wlog.atCall.pCurrentPam.mark = End(ring[wlog.rPaM]))
    /\ (wlog.op = "Write" /\ wlog.returned /\ ~writer.isStg =>
          /\ wpc = "idle"
          /\ wlog.wsCalls = 1
          /\ wlog.ret = wlog.wsRet
          /\ wlog.ret \in ErrCodes
          /\ writer.pDoc = 0
          /\ ~writer.pCurrentPam.has
          /\ writer.pOrigFileName = 0
          /\ writer.pStream = 0)

\* Write has returned an error code that WriteStream gave, for a PaM whose
\* point is behind its mark and with a file name, after CopyNextPam had moved
\* the current PaM
C11_Witness ==
    /\ wlog.op = "Write" /\ wlog.returned /\ ~writer.isStg
    /\ wlog.ret = "ERR_SWG_WRITE_ERROR"
    /\ wlog.pFName # 0
    /\ wlog.atCall.pStream # 0
    /\ ring[wlog.rPaM].point > ring[wlog.rPaM].mark
    /\ iter.last = "true"

(***************************************************************************)
(* C12: CopyNextPam walks the ring once                                    *)
(***************************************************************************)
\* C12: starting with *ppPam == m_pOrigPam on a ring of n PaMs, CopyNextPam
\* returns true n-1 times, each time moving *ppPam to the next ring member
\* and setting the current PaM's point and mark to that member's Start() and
\* End(); the n-th call returns false, sets *ppPam back to m_pOrigPam and
\* leaves the current PaM as it was.  On a ring of one PaM the first call
\* returns false.
C12_CopyNextPam ==
    wpc \in {"stream", "storage"} =>
        /\ iter.last = "none" => iter.pp = writer.pOrigPam /\ iter.trues = 0
        /\ iter.last = "true" =>
              /\ iter.trues \in 1..(Len(ring) - 1)
              /\ iter.pp = GetNext(iter.prevPp)
              /\ iter.pp # writer.pOrigPam
              /\ writer.pCurrentPam.has
              /\ writer.pCurrentPam.point = Start(ring[iter.pp])
              /\ writer.pCurrentPam.mark = End(ring[iter.pp])
        /\ iter.last = "false" =>
              /\ iter.trues = Len(ring) - 1
              /\ iter.pp = writer.pOrigPam
              /\ writer.pCurrentPam = iter.prevCur

\* on a ring of three PaMs the third call has returned false, after the
\* second one had set the current PaM to a member whose point is behind its
\* mark
C12_Witness ==
    /\ wpc = "stream"
    /\ Len(ring) = 3
    /\ iter.last = "false"
    /\ iter.trues = 2
    /\ ring[iter.prevPp].point > ring[iter.prevPp].mark
    /\ writer.pCurrentPam.point = ring[iter.prevPp].mark

(***************************************************************************)
(* C13: GetRawFontData fails on a missing or incompletely read table       *)
(***************************************************************************)
\* the short circuit for CFF fonts is taken
C13_CffOnly == pJustCFF = "set" /\ font["CFF "] > 0

C13_Refusals(always) ==
    raw.done =>
        /\ (always \/ ~C13_CffOnly) =>
              /\ (\E k \in 1..6 : font[Mandatory[k]] <= 0) => ~raw.ret
              /\ (font["CFF "] <= 0 /\ (font["loca"] <= 0 \/ font["glyf"] <= 0))
                    => ~raw.ret
        /\ raw.shortRead # {} => ~raw.ret
        /\ raw.ret =>
              /\ \A i \in DOMAIN raw.dir : raw.dir[i].tag \in raw.complete
              /\ raw.sfnt => raw.hdr.numTables = Len(raw.dir)

\* C13 as stated: GetRawFontData returns false whenever one of head, maxp,
\* cmap, name, hhea, hmtx is unavailable, or, without a CFF table, loca or
\* glyf is unavailable, or a table is read with another size than queried; it
\* returns true only if every table of the directory was read completely.
C13_AsStated == C13_Refusals(TRUE)

\* C13 amended: the same, except that a call with pJustCFF on a font with a
\* CFF table looks at the CFF table only and does not ask for the other
\* tables.
C13_Amended == C13_Refusals(FALSE)

\* a TrueType font with a prep table whose name table is delivered
\* incompletely after glyf and loca were read: the call fails
C13_Witness ==
    /\ raw.done /\ raw.sfnt /\ ~raw.ret
    /\ font["prep"] > 0
    /\ {"glyf", "loca"} \subseteq raw.complete
    /\ raw.shortRead = {"name"}

(***************************************************************************)
(* C14: the short circuit for CFF fonts                                    *)
(***************************************************************************)
\* C14: with pJustCFF given, *pJustCFF is true exactly when the font has a
\* CFF table; then the buffer has exactly the size of the CFF table, holds no
\* directory and nothing but CFF data, and the result is true iff the whole
\* table was read.  With *pJustCFF false the function goes on with the fake
\* SFNT font.
C14_ShortCircuit ==
    raw.done =>
        /\ pJustCFF = "set" =>
              raw.justCFF = IF font["CFF "] > 0 THEN "true" ELSE "false"
        /\ raw.justCFF = "true" =>
              /\ raw.size = font["CFF "]
              /\ Len(raw.data) = raw.size
              /\ ~raw.sfnt /\ raw.dir = <<>> /\ raw.hdr = NoHeader
              /\ \A k \in DOMAIN raw.data : raw.data[k][1] \in {"CFF ", ""}
              /\ raw.ret <=>
                    \A k \in DOMAIN raw.data : raw.data[k] = <<"CFF ", k>>
        /\ raw.justCFF = "false" =>
              (raw.sfnt <=>
                  /\ \A k \in 1..6 : font[Mandatory[k]] > 0
                  /\ font["loca"] > 0 /\ font["glyf"] > 0)

\* pJustCFF was given for a font with a CFF table and without a head table:
\* the buffer is the CFF table and the call succeeded
C14_Witness ==
    /\ raw.done /\ raw.ret
    /\ raw.justCFF = "true"
    /\ font["head"] = 0
    /\ raw.size = font["CFF "]

(***************************************************************************)
(* C18: the write offset reaches the end of the buffer                     *)
(***************************************************************************)
\* C18: when GetRawFontData has assembled a fake SFNT font and returns true,
\* nOfs == nTotalSize: the 12-byte header, the 16-byte directory entries and
\* the table data fill the buffer exactly, for TrueType and for CFF fonts.
C18_OffsetReachesEnd ==
    raw.done /\ raw.ret /\ raw.sfnt =>
        /\ raw.size = raw.nTotalSize
        /\ raw.nFdirSize = 12 + 16 * Len(raw.dir)
        /\ raw.nOfs = raw.nTotalSize

(***************************************************************************)
(* C19: the table ranges of the directory                                  *)
(***************************************************************************)
\* C19: in the fake SFNT font every directory entry's range
\* [offset, offset+length) lies in the buffer behind the directory, the
\* ranges of different tables are disjoint, and on return every range holds
\* the data read for its table, also for a CFF font when pJustCFF is null.
C19_TableRanges ==
    raw.done /\ raw.ret /\ raw.sfnt =>
        /\ \A i \in DOMAIN raw.dir :
              /\ raw.nFdirSize <= raw.dir[i].ofs
              /\ raw.dir[i].ofs + raw.dir[i].len <= raw.size
        /\ \A i, j \in DOMAIN raw.dir :
              i # j => \/ raw.dir[i].ofs + raw.dir[i].len <= raw.dir[j].ofs
                       \/ raw.dir[j].ofs + raw.dir[j].len <= raw.dir[i].ofs
        /\ \A i \in DOMAIN raw.dir :
              \A k \in 1..raw.dir[i].len :
                 raw.data[raw.dir[i].ofs - raw.nFdirSize + k]
                     = <<raw.dir[i].tag, k>>

(***************************************************************************)
(* C15: the system font list is cached                                     *)
(***************************************************************************)
\* the i-th call is the first one or follows a ClearDevFontCache
C15_CacheWasCleared(i) == i = 1 \/ fontLog[i - 1].op = "ClearDevFontCache"

\* C15: over any sequence of GetDevFontList and ClearDevFontCache calls the
\* system fonts are enumerated only by a GetDevFontList that finds the cache
\* empty, that is by the first call and by the first one after each
\* ClearDevFontCache; the cache is non-null after every GetDevFontList and
\* null after every ClearDevFontCache, and AnnounceFonts is never called on a
\* null or deleted list.
C15_FontListCache ==
    /\ \A i \in DOMAIN fontLog :
          LET e == fontLog[i]
          IN IF e.op = "GetDevFontList"
             THEN /\ e.enumerated <=> e.wasEmpty
                  /\ e.enumerated <=> C15_CacheWasCleared(i)
                  /\ e.after # 0
                  /\ e.announcedOn # 0 /\ e.announcedLive
             ELSE /\ ~e.enumerated
                  /\ e.after = 0
    /\ salData.created =
          Cardinality({i \in DOMAIN fontLog :
                          /\ fontLog[i].op = "GetDevFontList"
                          /\ C15_CacheWasCleared(i)})
    /\ fontLog # <<>> => salData.mpFontList = fontLog[Len(fontLog)].after
    /\ salData.mpFontList \notin salData.deleted

\* GetDevFontList twice, ClearDevFontCache, GetDevFontList: two enumerations,
\* the second call used the cached list
C15_Witness ==
    /\ Len(fontLog) = 4
    /\ fontLog[1].op = "GetDevFontList" /\ fontLog[2].op = "GetDevFontList"
    /\ fontLog[3].op = "ClearDevFontCache" /\ fontLog[4].op = "GetDevFontList"
    /\ ~fontLog[2].enumerated
    /\ fontLog[4].enumerated
    /\ salData.created = 2
    /\ salData.deleted = {1}

(***************************************************************************)
(* C16: FindFontSubstitute                                                 *)
(***************************************************************************)
\* the code points of a string, a surrogate pair being one code point
RECURSIVE C16_CodePoints(_)
C16_CodePoints(s) ==
    IF s = <<>> THEN <<>>
    ELSE IF Len(s) >= 2 /\ s[1] = "H" /\ s[2] = "L"
    THEN <<SubSeq(s, 1, 2)>> \o C16_CodePoints(SubSeq(s, 3, Len(s)))
    ELSE <<SubSeq(s, 1, 1)>> \o C16_CodePoints(Tail(s))

RECURSIVE C16_Concat(_)
C16_Concat(q) == IF q = <<>> THEN <<>> ELSE Head(q) \o C16_Concat(Tail(q))

\* the code points of s the font has no glyph for, in their order
C16_WithoutGlyph(s, glyphs) ==
    LET NoGlyph(cp) == cp \notin glyphs
    IN C16_Concat(SelectSeq(C16_CodePoints(s), NoGlyph))

\* C16: FindFontSubstitute returns true iff a fallback font was obtained; on
\* true rMissingChars is the order-preserving subsequence of the code points
\* (surrogate pairs whole) of the original string the fallback font has no
\* glyph for, and the pattern's search name, weight, italic, pitch and width
\* are the fallback font's; on false rMissingChars and the pattern are
\* unchanged.
C16_FindFontSubstitute ==
    substRes.done =>
        /\ substRes.ret <=> (fallback.hasStr /\ fallback.hasFont)
        /\ substRes.ret =>
              /\ missing = C16_WithoutGlyph(substRes.inMissing, fallback.glyphs)
              /\ pattern = FallbackAttr
        /\ ~substRes.ret =>
              /\ missing = substRes.inMissing
              /\ pattern = substRes.inPattern

\* the fallback font has a glyph for the surrogate pair only: of "a", the
\* pair and a lone high surrogate, "a" and the lone surrogate stay missing
C16_Witness ==
    /\ substRes.done /\ substRes.ret
    /\ substRes.inMissing = <<"H", "L", "H">>
    /\ fallback.glyphs = {<<"H", "L">>}
    /\ missing = <<"H">>
    /\ pattern.maSearchName = "Fallback"

(***************************************************************************)
(* C17: drawTextLayout draws maximal runs of equal orientation             *)
(***************************************************************************)
\* the CTFontDrawGlyphs calls are consecutive non-empty runs from the first
\* glyph on, each of one orientation, adjacent runs of different orientation
C17_RunsSoFar ==
    /\ \A k \in DOMAIN draws :
          /\ draws[k].len > 0
          /\ draws[k].start = IF k = 1 THEN 0
                              ELSE draws[k - 1].start + draws[k - 1].len
          /\ \A i \in draws[k].start..(draws[k].start + draws[k].len - 1) :
                (style.rotated /\ layout[i + 1]) = draws[k].upright
          /\ k > 1 => draws[k].upright # draws[k - 1].upright
    /\ aIt = IF draws = <<>> THEN 0
             ELSE draws[Len(draws)].start + draws[Len(draws)].len

\* the state on return when nothing is to be drawn, and when the glyphs are
C17_Nothing == draws = <<>> /\ depth = NoDepth

C17_AllDrawn ==
    /\ C17_RunsSoFar
    /\ aIt = Len(layout)
    /\ depth.now = 0
    /\ depth.saves = Len(draws) + 1

C17_OnReturn ==
    dpc = "done" =>
        IF style.mnHeight = 0 \/ layout = <<>>
        THEN C17_Nothing
        ELSE C17_AllDrawn

C17_OnReturnWithContext ==
    dpc = "done" =>
        IF NoContext \/ style.mnHeight = 0 \/ layout = <<>>
        THEN C17_Nothing
        ELSE C17_AllDrawn

\* C17: drawTextLayout draws the glyphs in maximal runs of equal orientation:
\* the CTFontDrawGlyphs calls partition the glyphs into consecutive non-empty
\* runs in layout order, every glyph is drawn once, adjacent runs differ in
\* the upright flag, the run loop terminates and the graphics-state depth on
\* return is the depth on entry; with font height 0 or without glyphs nothing
\* is drawn and no state is saved.
C17_DrawTextLayout ==
    /\ [](C17_OnReturn /\ (dpc = "runs" => C17_RunsSoFar))
    /\ (dpc = "runs") ~> (dpc = "done")

\* C17, amended: the same, where nothing is drawn and no state is saved also
\* when the iOS build finds no context (checkContext() is false), whatever
\* the font height and the layout are.
C17_Amended ==
    /\ [](C17_OnReturnWithContext /\ (dpc = "runs" => C17_RunsSoFar))
    /\ (dpc = "runs") ~> (dpc = "done")

\* a rotated layout of two vertical glyphs and a third one was drawn in two
\* runs
C17_Witness ==
    /\ dpc = "done"
    /\ style.rotated /\ style.mnHeight # 0
    /\ layout = <<TRUE, TRUE, FALSE>>
    /\ Len(draws) = 2
    /\ draws[1].len = 2 /\ draws[1].upright
    /\ depth.saves = 3

(***************************************************************************)
(* C20: the range of an outline item                                       *)
(***************************************************************************)
\* C20: for an item name<separator>"outline" that names an outline node of
\* level L, SelectServerObj returns true with a range from that node to the
\* first following outline node of level <= L, or to the end of the content
\* when there is none; following nodes of deeper level are inside the range.
C20_OutlineRange ==
    (call.op = "SelectServerObj" /\ call.item \in OutlineItems) =>
        LET name  == SubSeq(call.item, 1, Len(call.item) - 1 - Len(kwOutline))
            named == {i \in DOMAIN outlines : outlines[i].name = name}
        IN named # {} =>
              LET i    == CHOOSE x \in named : \A y \in named : x <= y
                  ends == {j \in DOMAIN outlines :
                              j > i /\ outlines[j].level <= outlines[i].level}
                  e    == IF ends = {} THEN Len(outlines) + 1
                          ELSE CHOOSE x \in ends : \A y \in ends : x <= y
              IN /\ call.ret
                 /\ call.range = <<"outline", i, e>>

====
